---- MODULE Spec2Model ----
(***************************************************************************)
(* Button board firmware (TK45-2025-ButtonBoard).                          *)
(*                                                                         *)
(* Three 24-channel master sketches share one latch design and differ in   *)
(* the hopper policy and in the HID commit policy:                         *)
(*   "W"  MasterWLEDs/MasterWLEDs.ino  toggle-flip hopper, commit on press *)
(*   "P1" unnamed/part_001             toggle-flip hopper, commit always   *)
(*   "L"  unnamed/part_002 (1-384)     level-mirror hopper, commit on      *)
(*                                     press or hopper change              *)
(* A fourth master, unnamed/part_002 (386-668), "PR", lets the slave latch  *)
(* its own selections and gives the local selection priority over them.    *)
(* One step of the model is one whole call of loop().  The remote node is  *)
(* the 8+3 extender of unnamed/part_000, whose requestEvent answers the    *)
(* master's Wire.requestFrom.                                              *)
(***************************************************************************)
EXTENDS Integers, FiniteSets, Sequences, TLC

VARIABLES
    variant,                 \* which master sketch runs: "W", "P1", "L" or "PR"
    selectedLocationMaster,  \* latch: master index of the location, or -1
    selectedLocationSlave,   \* latch: slave index of the location, or -1
    selectedHeightMaster,    \* latch: master index of the height, or -1
    selectedHeightSlave,     \* latch: slave index of the height, or -1
    hopperSelected,          \* latch: hopper on/off
    lastMasterPressed,       \* previous-cycle snapshot of the 13 local inputs
    lastSlavePressed,        \* previous-cycle snapshot of the 11 remote inputs
    lastHopperSwitch,        \* "L" only: previous-cycle hopper level
    joystick,                \* button state held by the Joystick object
    hidReport,               \* button state last committed by sendState()
    ledFrame,                \* pixel colours of the strip, as latched out by show()
    \* ---- state of the priority master "PR" only ----
    toggleMasterLocation,    \* local index of the active location, or -1
    toggleMasterHeight,      \* local index of the active height, or -1
    lastMasterPhysicalState, \* previous-cycle snapshot of the 13 local inputs
    finalLocationGlobal,     \* HID button of the reported location, or -1
    finalHeightGlobal,       \* HID button of the reported height, or -1
    busCommands,             \* command bytes written to the slave in the last cycle
    slaveLoc,                \* the slave's location byte used by the last cycle
    slaveHt,                 \* the slave's height byte used by the last cycle
    \* ---- one bus exchange on its own, for all pin levels ----
    slaveSketch,             \* the slave answering: "part_000" or "SlaveExpander"
    slavePins,               \* the slave's 11 pins, TRUE = LOW = pressed
    wireBytes,               \* the bytes the slave wrote in requestEvent()
    slavePressed,            \* the master's slavePressed[] after decoding
    busPhase,                \* "idle", "answered" or "decoded"
    \* ---- the wait for the two bytes, step by step ----
    waitPc,                  \* where loop() stands: "loop", "wait" or "delay"
    elapsed,                 \* millis() - t0 of the wait, in ms
    available,               \* Wire.available(): bytes received so far
    \* ---- the slave sketch between and during requests ----
    lastSlaveState,          \* SlaveExpander.ino: levels loop() saw last (debug build)
    slaveLoopI,              \* index i of the for loop in the slave's loop()
    slaveLoopPc,             \* the slave's loop(): "read", "write" or "delay"
    slaveLoopPressed,        \* the local 'pressed' of the slave's loop()
    pinsRead,                \* history: the pin levels the last requestEvent read
    \* ---- a second board running beside the first ----
    twin,                    \* the state of a part_001 master fed the same inputs,
                             \* or << >> while no second board is attached
    \* ---- environment and history of the last cycle (not program state) ----
    fetchOk,                 \* the last cycle's requestFrom delivered 2 bytes
    sent,                    \* the last cycle called Joystick.sendState()
    prev,                    \* the latch as it was before the last cycle
    risenMaster,             \* local indices with now && !was in the last cycle
    risenSlave,              \* remote indices with now && !was in the last cycle
    slaveHolds,              \* "PR": the two selections the slave last answered
    hopperHeld,              \* hopper pin LOW at the last good fetch and since
    lastGoodHopper,          \* hopper bit decoded from the last good fetch
    hopperEdgeOdd,           \* parity of hopper rising edges (toggle-flip masters)
    shows,                   \* masterStrip.show() calls of the last step
    setButtonCalls,          \* Joystick.setButton() calls of the last cycle
    everPressed,             \* some pin was LOW in some cycle since startup
    cycled                   \* loop() has run at least once

masterVars == <<variant, selectedLocationMaster, selectedLocationSlave,
          selectedHeightMaster, selectedHeightSlave, hopperSelected,
          lastMasterPressed, lastSlavePressed, lastHopperSwitch,
          joystick, hidReport, ledFrame,
          toggleMasterLocation, toggleMasterHeight, lastMasterPhysicalState,
          finalLocationGlobal, finalHeightGlobal, busCommands,
          slaveLoc, slaveHt,
          fetchOk, sent, prev,
          risenMaster, risenSlave, slaveHolds, hopperHeld, lastGoodHopper,
          hopperEdgeOdd, shows, setButtonCalls, everPressed, cycled>>

busVars == <<slaveSketch, slavePins, wireBytes, slavePressed, busPhase>>

waitVars == <<waitPc, elapsed, available>>

pairVars == <<twin>>

slaveVars == <<lastSlaveState, slaveLoopI, slaveLoopPc, slaveLoopPressed,
               pinsRead>>

vars == <<masterVars, busVars, waitVars, pairVars, slaveVars>>

\* The variables only the priority master writes.
priorityVars == <<toggleMasterLocation, toggleMasterHeight,
                  lastMasterPhysicalState, finalLocationGlobal,
                  finalHeightGlobal, busCommands, slaveLoc, slaveHt>>

-----------------------------------------------------------------------------
(* Static channel configuration                                            *)

NUM_MASTER_BUTTONS == 13
NUM_SLAVE_BUTTONS == 11
NUM_BUTTONS == 24
MASTER_NUM_LEDS == 48

MasterIdx == 0 .. (NUM_MASTER_BUTTONS - 1)
SlaveIdx == 0 .. (NUM_SLAVE_BUTTONS - 1)
ButtonIdx == 0 .. (NUM_BUTTONS - 1)
LedIdx == 0 .. (MASTER_NUM_LEDS - 1)

masterButtonType ==
    [i \in MasterIdx |->
        << "HEIGHT", "HEIGHT", "HEIGHT", "HEIGHT", "HEIGHT",
           "LOCATION", "LOCATION", "LOCATION", "LOCATION",
           "LOCATION", "LOCATION", "LOCATION", "LOCATION" >>[i + 1]]

slaveButtonType ==
    [i \in SlaveIdx |->
        << "HOPPER", "HEIGHT", "HEIGHT",
           "LOCATION", "LOCATION", "LOCATION", "LOCATION",
           "LOCATION", "LOCATION", "LOCATION", "LOCATION" >>[i + 1]]

slaveJoystickIndex ==
    [i \in SlaveIdx |-> << 13, 14, 15, 16, 17, 18, 19, 20, 21, 22, 23 >>[i + 1]]

\* Mutant: the last local pixel is mistyped as 23, the pixel of remote
\* button 10.
masterLedIndex_Duplicate ==
    [i \in MasterIdx |->
        << 11, 9, 7, 5, 3, 14, 0, 32, 15, 17, 18, 20, 23 >>[i + 1]]

masterLedIndex ==
    [i \in MasterIdx |->
        << 11, 9, 7, 5, 3, 14, 0, 32, 15, 17, 18, 20, 21 >>[i + 1]]

slaveLedIndex ==
    [i \in SlaveIdx |-> << 37, 41, 43, 47, 33, 30, 29, 27, 26, 24, 23 >>[i + 1]]

\* The colours, as the 24-bit RGB values of the #defines.
COLOR_LOC_NOT_PRESSED == 10040115   \* 0x993333
COLOR_LOC_SELECTED == 16711680      \* 0xFF0000
COLOR_HT_NOT_PRESSED == 16777215    \* 0xFFFFFF
COLOR_HT_SELECTED == 255            \* 0x0000FF
COLOR_HOP_NOT_PRESSED == 65280      \* 0x00FF00
COLOR_HOP_SELECTED == 16711680      \* 0xFF0000

-----------------------------------------------------------------------------
(* Bounds of the environment                                               *)

\* At most MaxHeld buttons are held down at the same time (both boards).
MaxHeld == 2

\* The buttons the environment presses.  Locally a height and the lowest and
\* the highest location; remotely the hopper, a height and the highest
\* location, so that both bytes of the bus answer are exercised.
MasterPool == {4, 5, 12}
SlavePool == {0, 1, 10}

NoneLow(Idx) == [i \in Idx |-> FALSE]
LowAt(Idx, P) == [i \in Idx |-> i \in P]
HeldCount(f) == Cardinality({i \in DOMAIN f : f[i]})

\* The pin levels one cycle can find.
PinLevels ==
    {pl \in [m : {LowAt(MasterIdx, P) : P \in SUBSET MasterPool},
             s : {LowAt(SlaveIdx, P) : P \in SUBSET SlavePool}] :
        HeldCount(pl.m) + HeldCount(pl.s) <= MaxHeld}

\* A cycle whose fetch fails never reads the slave's pins; of their levels
\* only the hopper pin's is followed (hopperHeld).
PinLevelsUnread == {pl \in PinLevels : \A i \in SlaveIdx : pl.s[i] => i = 0}

\* The local pin levels a cycle of the priority master can find, and the two
\* bytes its slave can answer: no selection, a location alone, the lowest and
\* the highest selection numbers, and the first numbers out of range.
MasterLevels ==
    {m \in {LowAt(MasterIdx, P) : P \in SUBSET MasterPool} : HeldCount(m) <= MaxHeld}
SlaveReplies ==
    {<<255, 255>>, <<0, 255>>, <<0, 1>>, <<7, 0>>, <<8, 2>>}

-----------------------------------------------------------------------------
(* The bus: the slave's answer and the master's decoding                   *)

Pow2(n) == 2 ^ n
BitIsSet(b, i) == (b \div Pow2(i)) % 2 = 1
\* b |= (1 << i) on a uint8_t
OrBit(b, i) == IF BitIsSet(b, i) THEN b ELSE (b + Pow2(i)) % 256

\* part_000 requestEvent: indices 0..7 go to bits 0..7 of byte1
RECURSIVE PackByte1(_, _, _)
PackByte1(low, i, b) ==
    IF i >= 8 THEN b
    ELSE PackByte1(low, i + 1,
                   IF i < NUM_SLAVE_BUTTONS /\ low[i] THEN OrBit(b, i) ELSE b)

\* part_000 requestEvent: indices 8..10 go to bits 0..2 of byte2
RECURSIVE PackByte2(_, _, _)
PackByte2(low, i, b) ==
    IF i >= NUM_SLAVE_BUTTONS THEN b
    ELSE PackByte2(low, i + 1, IF low[i] THEN OrBit(b, i - 8) ELSE b)

\* The two bytes written by the slave for the pin levels read in the request.
requestEvent(low) == << PackByte1(low, 0, 0), PackByte2(low, 8, 0) >>

\* SlaveExpander.ino requestEvent: indices 0..6 go to bits 0..6 of byte1
RECURSIVE PackExpander1(_, _, _)
PackExpander1(low, i, b) ==
    IF i >= 7 THEN b
    ELSE PackExpander1(low, i + 1, IF low[i] THEN OrBit(b, i) ELSE b)

\* Mutant: the second loop shifts by i - 8, as the 8+3 slave does.
RECURSIVE PackExpander2_ShiftBy8(_, _, _)
PackExpander2_ShiftBy8(low, i, b) ==
    IF i >= NUM_SLAVE_BUTTONS THEN b
    ELSE PackExpander2_ShiftBy8(low, i + 1,
                                IF low[i] /\ i >= 8 THEN OrBit(b, i - 8) ELSE b)

\* SlaveExpander.ino requestEvent: indices 7..10 go to bits 0..3 of byte2
RECURSIVE PackExpander2(_, _, _)
PackExpander2(low, i, b) ==
    IF i >= NUM_SLAVE_BUTTONS THEN b
    ELSE PackExpander2(low, i + 1, IF low[i] THEN OrBit(b, i - 7) ELSE b)

\* Mutant: the slave answers with latched presses: a pin counts as pressed
\* when it is LOW or was LOW the last time loop() looked.
requestEventExpander_Latched(low) ==
    << PackExpander1([i \in SlaveIdx |-> low[i] \/ lastSlaveState[i]], 0, 0),
       PackExpander2([i \in SlaveIdx |-> low[i] \/ lastSlaveState[i]], 7, 0) >>

\* The two Wire.write calls of SlaveExpander.ino.
requestEventExpander(low) ==
    << PackExpander1(low, 0, 0), PackExpander2(low, 7, 0) >>

\* Mutant: the bytes are read although none arrived (Wire.read() gives -1).
FetchBytes_ReadsAnyway(ok, low) ==
    IF ok THEN requestEvent(low) ELSE << 255, 255 >>

\* Wire.requestFrom with the 50 ms wait: both bytes, or byte1 = byte2 = 0 as
\* initialised when fewer than two bytes arrived in time.
FetchBytes(ok, low) == IF ok THEN requestEvent(low) ELSE << 0, 0 >>

\* Mutant: the master splits the channels 7+4 instead of 8+3.
DecodeSlave_SplitAt7(bytes) ==
    [i \in SlaveIdx |->
        IF i < 7 THEN BitIsSet(bytes[1], i) ELSE BitIsSet(bytes[2], i - 7)]

\* The master's slavePressed[] from the two bytes.
DecodeSlave(bytes) ==
    [i \in SlaveIdx |->
        IF i < 8 THEN BitIsSet(bytes[1], i) ELSE BitIsSet(bytes[2], i - 8)]

-----------------------------------------------------------------------------
(* The latch                                                               *)

Latch ==
    [selectedLocationMaster |-> selectedLocationMaster,
     selectedLocationSlave  |-> selectedLocationSlave,
     selectedHeightMaster   |-> selectedHeightMaster,
     selectedHeightSlave    |-> selectedHeightSlave,
     hopperSelected         |-> hopperSelected]

InitLatch ==
    [selectedLocationMaster |-> -1,
     selectedLocationSlave  |-> -1,
     selectedHeightMaster   |-> -1,
     selectedHeightSlave    |-> -1,
     hopperSelected         |-> FALSE]

\* Mutant: a local press does not clear the remote selection.
MasterEdge_KeepsSlave(L, i) ==
    IF masterButtonType[i] = "LOCATION"
    THEN [L EXCEPT !.selectedLocationMaster = i]
    ELSE IF masterButtonType[i] = "HEIGHT"
    THEN [L EXCEPT !.selectedHeightMaster = i]
    ELSE L

\* Mutant: pressing the selected local button again deselects it.
MasterEdge_PressAgainDeselects(L, i) ==
    IF masterButtonType[i] = "LOCATION"
    THEN [L EXCEPT !.selectedLocationMaster =
                        IF L.selectedLocationMaster = i THEN -1 ELSE i,
                   !.selectedLocationSlave = -1]
    ELSE IF masterButtonType[i] = "HEIGHT"
    THEN [L EXCEPT !.selectedHeightMaster =
                        IF L.selectedHeightMaster = i THEN -1 ELSE i,
                   !.selectedHeightSlave = -1]
    ELSE L

\* Mutant: every local press is taken for a location, whatever its type.
MasterEdge_Untyped(L, i) ==
    [L EXCEPT !.selectedLocationMaster = i, !.selectedLocationSlave = -1]

\* Mutant: a local press resets the selection of the other category too.
MasterEdge_ResetsOther(L, i) ==
    IF masterButtonType[i] = "LOCATION"
    THEN [L EXCEPT !.selectedLocationMaster = i, !.selectedLocationSlave = -1,
                   !.selectedHeightMaster = -1, !.selectedHeightSlave = -1]
    ELSE IF masterButtonType[i] = "HEIGHT"
    THEN [L EXCEPT !.selectedHeightMaster = i, !.selectedHeightSlave = -1,
                   !.selectedLocationMaster = -1, !.selectedLocationSlave = -1]
    ELSE L

\* Body of "if (now && !was)" for local button i (the same in the three
\* sketches).
MasterEdge(L, i) ==
    IF masterButtonType[i] = "LOCATION"
    THEN [L EXCEPT !.selectedLocationMaster = i, !.selectedLocationSlave = -1]
    ELSE IF masterButtonType[i] = "HEIGHT"
    THEN [L EXCEPT !.selectedHeightMaster = i, !.selectedHeightSlave = -1]
    ELSE L

\* Mutant: the local buttons are scanned from the highest index down.
RECURSIVE MasterLoopDown(_, _, _, _)
MasterLoopDown(L, now, was, i) ==
    IF i < 0 THEN L
    ELSE MasterLoopDown(IF now[i] /\ ~was[i] THEN MasterEdge(L, i) ELSE L,
                        now, was, i - 1)

MasterLoop_Descending(L, now, was, i) ==
    MasterLoopDown(L, now, was, NUM_MASTER_BUTTONS - 1 - i)

\* Mutant: every pressed local button acts in every cycle, held or new.
RECURSIVE MasterLoop_Level(_, _, _, _)
MasterLoop_Level(L, now, was, i) ==
    IF i >= NUM_MASTER_BUTTONS THEN L
    ELSE MasterLoop_Level(IF now[i] THEN MasterEdge(L, i) ELSE L,
                          now, was, i + 1)

\* for (i = 0; i < NUM_MASTER_BUTTONS; i++) over the local buttons
RECURSIVE MasterLoop(_, _, _, _)
MasterLoop(L, now, was, i) ==
    IF i >= NUM_MASTER_BUTTONS THEN L
    ELSE MasterLoop(IF now[i] /\ ~was[i] THEN MasterEdge(L, i) ELSE L,
                    now, was, i + 1)

\* Mutant: a remote press does not take a selection the master holds.
SlaveEdge_MasterPriority(L, i) ==
    IF slaveButtonType[i] = "LOCATION"
    THEN IF L.selectedLocationMaster # -1 THEN L
         ELSE [L EXCEPT !.selectedLocationSlave = i]
    ELSE IF slaveButtonType[i] = "HEIGHT"
    THEN IF L.selectedHeightMaster # -1 THEN L
         ELSE [L EXCEPT !.selectedHeightSlave = i]
    ELSE IF slaveButtonType[i] = "HOPPER"
    THEN [L EXCEPT !.hopperSelected = ~L.hopperSelected]
    ELSE L

\* Mutant: a hopper press switches the hopper on instead of flipping it.
SlaveEdge_HopperSet(L, i) ==
    IF slaveButtonType[i] = "LOCATION"
    THEN [L EXCEPT !.selectedLocationMaster = -1, !.selectedLocationSlave = i]
    ELSE IF slaveButtonType[i] = "HEIGHT"
    THEN [L EXCEPT !.selectedHeightMaster = -1, !.selectedHeightSlave = i]
    ELSE IF slaveButtonType[i] = "HOPPER"
    THEN [L EXCEPT !.hopperSelected = TRUE]
    ELSE L

\* Body of "if (now && !was)" for remote button i in the toggle-flip
\* sketches ("W" and "P1").
SlaveEdge(L, i) ==
    IF slaveButtonType[i] = "LOCATION"
    THEN [L EXCEPT !.selectedLocationMaster = -1, !.selectedLocationSlave = i]
    ELSE IF slaveButtonType[i] = "HEIGHT"
    THEN [L EXCEPT !.selectedHeightMaster = -1, !.selectedHeightSlave = i]
    ELSE IF slaveButtonType[i] = "HOPPER"
    THEN [L EXCEPT !.hopperSelected = ~L.hopperSelected]
    ELSE L

\* for (i = 0; i < NUM_SLAVE_BUTTONS; i++) over the remote buttons, "W"/"P1"
RECURSIVE SlaveLoop(_, _, _, _)
SlaveLoop(L, now, was, i) ==
    IF i >= NUM_SLAVE_BUTTONS THEN L
    ELSE SlaveLoop(IF now[i] /\ ~was[i] THEN SlaveEdge(L, i) ELSE L,
                   now, was, i + 1)

\* Mutant: in "L" a remote press does not clear the local selection.
SlaveEdgeMirror_KeepsMaster(L, i) ==
    IF slaveButtonType[i] = "LOCATION"
    THEN [L EXCEPT !.selectedLocationSlave = i]
    ELSE IF slaveButtonType[i] = "HEIGHT"
    THEN [L EXCEPT !.selectedHeightSlave = i]
    ELSE L

\* Body of "if (now && !was)" for remote button i in the level-mirror sketch
\* ("L"): the hopper is not toggled there.
SlaveEdgeMirror(L, i) ==
    IF slaveButtonType[i] = "LOCATION"
    THEN [L EXCEPT !.selectedLocationMaster = -1, !.selectedLocationSlave = i]
    ELSE IF slaveButtonType[i] = "HEIGHT"
    THEN [L EXCEPT !.selectedHeightMaster = -1, !.selectedHeightSlave = i]
    ELSE L

\* The remote loop of "L": index 0 is skipped by "continue".
RECURSIVE SlaveLoopMirror(_, _, _, _)
SlaveLoopMirror(L, now, was, i) ==
    IF i >= NUM_SLAVE_BUTTONS THEN L
    ELSE SlaveLoopMirror(
            IF i # 0 /\ now[i] /\ ~was[i] THEN SlaveEdgeMirror(L, i) ELSE L,
            now, was, i + 1)

\* lastSlavePressed after the remote loop of "L": entry 0 is never written.
LastSlaveMirror(now, was) ==
    [i \in SlaveIdx |-> IF i = 0 THEN was[i] ELSE now[i]]

\* Mutant: only local presses raise newPressDetected.
NewPressW_MasterOnly(mNow, mWas, sNow, sWas) ==
    \E i \in MasterIdx : mNow[i] /\ ~mWas[i]

\* Mutant: newPressDetected is raised by a held button, not by an edge.
NewPressW_Level(mNow, mWas, sNow, sWas) ==
    \/ \E i \in MasterIdx : mNow[i]
    \/ \E i \in SlaveIdx : sNow[i]

\* Mutant: a hopper press does not raise newPressDetected.
NewPressW_NoHopper(mNow, mWas, sNow, sWas) ==
    \/ \E i \in MasterIdx : mNow[i] /\ ~mWas[i]
    \/ \E i \in SlaveIdx : i # 0 /\ sNow[i] /\ ~sWas[i]

\* newPressDetected after both loops of "W".
NewPressW(mNow, mWas, sNow, sWas) ==
    \/ \E i \in MasterIdx : mNow[i] /\ ~mWas[i]
    \/ \E i \in SlaveIdx : sNow[i] /\ ~sWas[i]

\* Mutant: only a hopper press raises newPressDetected, not a release.
NewPressL_HopperPressOnly(mNow, mWas, sNow, sWas, currentHopper, lastHop) ==
    \/ \E i \in MasterIdx : mNow[i] /\ ~mWas[i]
    \/ \E i \in SlaveIdx : i # 0 /\ sNow[i] /\ ~sWas[i]
    \/ currentHopper /\ ~lastHop

\* newPressDetected of "L": a press on a non-hopper button, or a change of
\* the hopper level.
NewPressL(mNow, mWas, sNow, sWas, currentHopper, lastHop) ==
    \/ \E i \in MasterIdx : mNow[i] /\ ~mWas[i]
    \/ \E i \in SlaveIdx : i # 0 /\ sNow[i] /\ ~sWas[i]
    \/ currentHopper # lastHop

-----------------------------------------------------------------------------
(* The HID sink                                                            *)

SetButton(j, idx, v) == [j EXCEPT ![idx] = v]

RECURSIVE ClearMaster(_, _)
ClearMaster(j, i) ==
    IF i >= NUM_MASTER_BUTTONS THEN j
    ELSE ClearMaster(SetButton(j, i, FALSE), i + 1)

\* Mutant: the remote buttons are cleared at their own index instead of at
\* slaveJoystickIndex[i].
RECURSIVE ClearSlave_RawIndex(_, _)
ClearSlave_RawIndex(j, i) ==
    IF i >= NUM_SLAVE_BUTTONS THEN j
    ELSE ClearSlave_RawIndex(SetButton(j, i, FALSE), i + 1)

RECURSIVE ClearSlave(_, _)
ClearSlave(j, i) ==
    IF i >= NUM_SLAVE_BUTTONS THEN j
    ELSE ClearSlave(SetButton(j, slaveJoystickIndex[i], FALSE), i + 1)

\* Mutant: the buttons are asserted without clearing the old ones first.
WriteButtons_NoClear(j, L) ==
    LET j1 == IF L.selectedLocationMaster # -1
              THEN SetButton(j, L.selectedLocationMaster, TRUE) ELSE j
        j2 == IF L.selectedLocationSlave # -1
              THEN SetButton(j1, slaveJoystickIndex[L.selectedLocationSlave], TRUE)
              ELSE j1
        j3 == IF L.selectedHeightMaster # -1
              THEN SetButton(j2, L.selectedHeightMaster, TRUE) ELSE j2
        j4 == IF L.selectedHeightSlave # -1
              THEN SetButton(j3, slaveJoystickIndex[L.selectedHeightSlave], TRUE)
              ELSE j3
    IN  SetButton(j4, slaveJoystickIndex[0], L.hopperSelected)

\* "Clear all joystick buttons" then "assert the latched states".
WriteButtons(j, L) ==
    LET j0 == ClearSlave(ClearMaster(j, 0), 0)
        j1 == IF L.selectedLocationMaster # -1
              THEN SetButton(j0, L.selectedLocationMaster, TRUE) ELSE j0
        j2 == IF L.selectedLocationSlave # -1
              THEN SetButton(j1, slaveJoystickIndex[L.selectedLocationSlave], TRUE)
              ELSE j1
        j3 == IF L.selectedHeightMaster # -1
              THEN SetButton(j2, L.selectedHeightMaster, TRUE) ELSE j2
        j4 == IF L.selectedHeightSlave # -1
              THEN SetButton(j3, slaveJoystickIndex[L.selectedHeightSlave], TRUE)
              ELSE j3
    IN  SetButton(j4, slaveJoystickIndex[0], L.hopperSelected)

\* The button numbers the block above passes to Joystick.setButton().
WriteButtonsIndices(L) ==
    MasterIdx
    \cup {slaveJoystickIndex[i] : i \in SlaveIdx}
    \cup (IF L.selectedLocationMaster # -1 THEN {L.selectedLocationMaster} ELSE {})
    \cup (IF L.selectedLocationSlave # -1
           THEN {slaveJoystickIndex[L.selectedLocationSlave]} ELSE {})
    \cup (IF L.selectedHeightMaster # -1 THEN {L.selectedHeightMaster} ELSE {})
    \cup (IF L.selectedHeightSlave # -1
           THEN {slaveJoystickIndex[L.selectedHeightSlave]} ELSE {})
    \cup {slaveJoystickIndex[0]}

\* The number of Joystick.setButton() calls of the block above: one per
\* channel to clear, one per selection index that is not -1, one for the
\* hopper.
WriteButtonsCalls(L) ==
    NUM_MASTER_BUTTONS + NUM_SLAVE_BUTTONS
    + (IF L.selectedLocationMaster # -1 THEN 1 ELSE 0)
    + (IF L.selectedLocationSlave # -1 THEN 1 ELSE 0)
    + (IF L.selectedHeightMaster # -1 THEN 1 ELSE 0)
    + (IF L.selectedHeightSlave # -1 THEN 1 ELSE 0)
    + 1

-----------------------------------------------------------------------------
(* The LED sink                                                            *)

\* The strip after masterStrip.begin(): every pixel off.
Dark == [p \in LedIdx |-> 0]

\* Mutant: the two hopper colours are swapped.
ColorOf_HopperSwapped(btype, isSelected) ==
    IF btype = "LOCATION"
    THEN (IF isSelected THEN COLOR_LOC_SELECTED ELSE COLOR_LOC_NOT_PRESSED)
    ELSE IF btype = "HEIGHT"
    THEN (IF isSelected THEN COLOR_HT_SELECTED ELSE COLOR_HT_NOT_PRESSED)
    ELSE IF btype = "HOPPER"
    THEN (IF isSelected THEN COLOR_HOP_NOT_PRESSED ELSE COLOR_HOP_SELECTED)
    ELSE 0

\* The colour setButtonColor gives a pixel (its switch over the category).
ColorOf(btype, isSelected) ==
    IF btype = "LOCATION"
    THEN (IF isSelected THEN COLOR_LOC_SELECTED ELSE COLOR_LOC_NOT_PRESSED)
    ELSE IF btype = "HEIGHT"
    THEN (IF isSelected THEN COLOR_HT_SELECTED ELSE COLOR_HT_NOT_PRESSED)
    ELSE IF btype = "HOPPER"
    THEN (IF isSelected THEN COLOR_HOP_SELECTED ELSE COLOR_HOP_NOT_PRESSED)
    ELSE 0

\* isSelected of local button i (the three sketches compute the same value).
MasterIsSelected(L, i) ==
    \/ (masterButtonType[i] = "LOCATION" /\ i = L.selectedLocationMaster)
    \/ (masterButtonType[i] = "HEIGHT" /\ i = L.selectedHeightMaster)

\* Mutant: the hopper pixel is never given the selected colour.
SlaveIsSelected_NoHopper(L, i) ==
    \/ (slaveButtonType[i] = "LOCATION" /\ i = L.selectedLocationSlave)
    \/ (slaveButtonType[i] = "HEIGHT" /\ i = L.selectedHeightSlave)

\* isSelected of remote button i (the three sketches compute the same value).
SlaveIsSelected(L, i) ==
    \/ (slaveButtonType[i] = "LOCATION" /\ i = L.selectedLocationSlave)
    \/ (slaveButtonType[i] = "HEIGHT" /\ i = L.selectedHeightSlave)
    \/ (slaveButtonType[i] = "HOPPER" /\ L.hopperSelected)

\* "Master side": for (i = 0; i < NUM_MASTER_BUTTONS; i++) setButtonColor(...),
\* one clause per iteration, in the order of the loop (a later clause
\* overwrites an earlier one on the same pixel).
MasterLeds(px, L) ==
    [px EXCEPT
        ![masterLedIndex[0]] = ColorOf(masterButtonType[0], MasterIsSelected(L, 0)),
        ![masterLedIndex[1]] = ColorOf(masterButtonType[1], MasterIsSelected(L, 1)),
        ![masterLedIndex[2]] = ColorOf(masterButtonType[2], MasterIsSelected(L, 2)),
        ![masterLedIndex[3]] = ColorOf(masterButtonType[3], MasterIsSelected(L, 3)),
        ![masterLedIndex[4]] = ColorOf(masterButtonType[4], MasterIsSelected(L, 4)),
        ![masterLedIndex[5]] = ColorOf(masterButtonType[5], MasterIsSelected(L, 5)),
        ![masterLedIndex[6]] = ColorOf(masterButtonType[6], MasterIsSelected(L, 6)),
        ![masterLedIndex[7]] = ColorOf(masterButtonType[7], MasterIsSelected(L, 7)),
        ![masterLedIndex[8]] = ColorOf(masterButtonType[8], MasterIsSelected(L, 8)),
        ![masterLedIndex[9]] = ColorOf(masterButtonType[9], MasterIsSelected(L, 9)),
        ![masterLedIndex[10]] = ColorOf(masterButtonType[10], MasterIsSelected(L, 10)),
        ![masterLedIndex[11]] = ColorOf(masterButtonType[11], MasterIsSelected(L, 11)),
        ![masterLedIndex[12]] = ColorOf(masterButtonType[12], MasterIsSelected(L, 12))]

\* "Slave side": for (i = 0; i < NUM_SLAVE_BUTTONS; i++) setButtonColor(...),
\* one clause per iteration, in the order of the loop.
SlaveLeds(px, L) ==
    [px EXCEPT
        ![slaveLedIndex[0]] = ColorOf(slaveButtonType[0], SlaveIsSelected(L, 0)),
        ![slaveLedIndex[1]] = ColorOf(slaveButtonType[1], SlaveIsSelected(L, 1)),
        ![slaveLedIndex[2]] = ColorOf(slaveButtonType[2], SlaveIsSelected(L, 2)),
        ![slaveLedIndex[3]] = ColorOf(slaveButtonType[3], SlaveIsSelected(L, 3)),
        ![slaveLedIndex[4]] = ColorOf(slaveButtonType[4], SlaveIsSelected(L, 4)),
        ![slaveLedIndex[5]] = ColorOf(slaveButtonType[5], SlaveIsSelected(L, 5)),
        ![slaveLedIndex[6]] = ColorOf(slaveButtonType[6], SlaveIsSelected(L, 6)),
        ![slaveLedIndex[7]] = ColorOf(slaveButtonType[7], SlaveIsSelected(L, 7)),
        ![slaveLedIndex[8]] = ColorOf(slaveButtonType[8], SlaveIsSelected(L, 8)),
        ![slaveLedIndex[9]] = ColorOf(slaveButtonType[9], SlaveIsSelected(L, 9)),
        ![slaveLedIndex[10]] = ColorOf(slaveButtonType[10], SlaveIsSelected(L, 10))]

\* The strip buffer after both loops.
LightPixels(px, L) == SlaveLeds(MasterLeds(px, L), L)

\* Mutant: the strip is rewritten and shown only when the latch has changed.
Light_OnChange(L) ==
    /\ ledFrame' = IF L # Latch THEN LightPixels(ledFrame, L) ELSE ledFrame
    /\ shows' = IF L # Latch THEN 1 ELSE 0

\* Mutant: the pixels are painted before the latch is updated, from the
\* latch the cycle started with.
Light_BeforeLatchUpdate(L) ==
    /\ ledFrame' = LightPixels(ledFrame, Latch)
    /\ shows' = 1

\* The tail of loop(): the pixels are rewritten from the latch and latched
\* out by one masterStrip.show().
Light(L) ==
    /\ ledFrame' = LightPixels(ledFrame, L)
    /\ shows' = 1

-----------------------------------------------------------------------------
(* The priority master                                                     *)

CMD_CLEAR_LOCATION == 1
CMD_CLEAR_HEIGHT == 2
PRIORITY_NUM_LEDS == 13
NO_SELECTION == 255          \* 0xFF

numMasterLocation == 8
numMasterHeight == 5
masterLocationGroup == << 0, 1, 2, 5, 7, 8, 9, 11 >>
masterHeightGroup == << 3, 4, 6, 10, 12 >>
slaveLocationMapping == << 13, 14, 15, 18, 19, 20, 22, 23 >>
slaveHeightMapping == << 16, 17 >>

\* C arrays are indexed from 0, the tuples above from 1.
At(arr, j) == arr[j + 1]
InGroup(arr, i) == \E j \in 1 .. Len(arr) : arr[j] = i

\* The colours of the priority master's LED loops.
PRIORITY_COLOR_SELECTED == 16711680     \* 0xFF0000
PRIORITY_COLOR_LOCATION == 3381759      \* 0x3399FF
PRIORITY_COLOR_HEIGHT == 16777113       \* 0xFFFF99

\* The 13-pixel strip after masterStrip.begin().
PriorityDark == [p \in 0 .. (PRIORITY_NUM_LEDS - 1) |-> 0]

Toggles ==
    [toggleMasterLocation |-> toggleMasterLocation,
     toggleMasterHeight   |-> toggleMasterHeight]

\* Mutant: pressing the active local button again switches its toggle off.
PriorityEdge_PressAgainClears(T, i) ==
    LET T1 == IF InGroup(masterLocationGroup, i)
              THEN [T EXCEPT !.toggleMasterLocation =
                        IF T.toggleMasterLocation = i THEN -1 ELSE i]
              ELSE T
    IN  IF InGroup(masterHeightGroup, i)
        THEN [T1 EXCEPT !.toggleMasterHeight =
                        IF T.toggleMasterHeight = i THEN -1 ELSE i]
        ELSE T1

\* Step 1 for local button i: a rising edge makes i the active selection of
\* the group it belongs to.
PriorityEdge(T, i) ==
    LET T1 == IF InGroup(masterLocationGroup, i)
              THEN [T EXCEPT !.toggleMasterLocation = i] ELSE T
    IN  IF InGroup(masterHeightGroup, i)
        THEN [T1 EXCEPT !.toggleMasterHeight = i] ELSE T1

\* Step 1: for (i = 0; i < NUM_MASTER_BUTTONS; i++)
RECURSIVE PriorityMasterLoop(_, _, _, _)
PriorityMasterLoop(T, now, was, i) ==
    IF i >= NUM_MASTER_BUTTONS THEN T
    ELSE PriorityMasterLoop(IF now[i] /\ ~was[i] THEN PriorityEdge(T, i) ELSE T,
                            now, was, i + 1)

\* Step 2: the two bytes of the slave, or 0xFF 0xFF when fewer than two
\* bytes arrived within 50 ms.
PriorityFetch(ok, reply) ==
    IF ok THEN reply ELSE << NO_SELECTION, NO_SELECTION >>

\* Mutant: the slave's selection is taken first, the local one only when the
\* slave reports none.
FinalGlobal_SlaveFirst(toggle, slaveSel, mapping) ==
    IF slaveSel # NO_SELECTION
    THEN (IF slaveSel < Len(mapping) THEN At(mapping, slaveSel) ELSE -1)
    ELSE toggle

\* Mutant: the slave's number is taken as an offset from button 13 instead
\* of being range-checked and looked up.
FinalGlobal_Unchecked(toggle, slaveSel, mapping) ==
    IF toggle # -1 THEN toggle
    ELSE IF slaveSel # NO_SELECTION THEN 13 + slaveSel
    ELSE -1

\* Step 3 for one category: the local selection first, else the slave's.
FinalGlobal(toggle, slaveSel, mapping) ==
    IF toggle # -1 THEN toggle
    ELSE IF slaveSel # NO_SELECTION
    THEN (IF slaveSel < Len(mapping) THEN At(mapping, slaveSel) ELSE -1)
    ELSE -1

\* Mutant: both commands are written in every cycle, toggle or not.
ClearCommands_Unconditional(T) ==
    << CMD_CLEAR_LOCATION, CMD_CLEAR_HEIGHT >>

\* Mutant: only the location command is ever written.
ClearCommands_LocationOnly(T) ==
    IF T.toggleMasterLocation # -1 THEN << CMD_CLEAR_LOCATION >> ELSE << >>

\* Step 3: the commands written to the slave by sendSlaveCommand.
ClearCommands(T) ==
    (IF T.toggleMasterLocation # -1 THEN << CMD_CLEAR_LOCATION >> ELSE << >>)
    \o (IF T.toggleMasterHeight # -1 THEN << CMD_CLEAR_HEIGHT >> ELSE << >>)

\* for (j = 0; j < n; j++) Joystick.setButton(arr[j], false)
RECURSIVE ClearGroup(_, _, _)
ClearGroup(j, arr, k) ==
    IF k >= Len(arr) THEN j
    ELSE ClearGroup(SetButton(j, At(arr, k), FALSE), arr, k + 1)

\* Step 4: clear the four groups, then press the two final selections.
PriorityWriteButtons(j, finalLoc, finalHt) ==
    LET j0 == ClearGroup(ClearGroup(ClearGroup(ClearGroup(j,
                    masterLocationGroup, 0), masterHeightGroup, 0),
                    slaveLocationMapping, 0), slaveHeightMapping, 0)
        j1 == IF finalLoc # -1 THEN SetButton(j0, finalLoc, TRUE) ELSE j0
    IN  IF finalHt # -1 THEN SetButton(j1, finalHt, TRUE) ELSE j1

PriorityWriteButtonsCalls(finalLoc, finalHt) ==
    numMasterLocation + numMasterHeight
    + Len(slaveLocationMapping) + Len(slaveHeightMapping)
    + (IF finalLoc # -1 THEN 1 ELSE 0)
    + (IF finalHt # -1 THEN 1 ELSE 0)

\* Step 5, one group: the selected colour on the local selection when it is
\* the reported one, the group's default colour elsewhere.
RECURSIVE GroupLeds(_, _, _, _, _, _)
GroupLeds(px, arr, k, toggle, final, rest) ==
    IF k >= Len(arr) THEN px
    ELSE GroupLeds(
            [px EXCEPT ![At(arr, k)] =
                IF At(arr, k) = toggle /\ final = toggle
                THEN PRIORITY_COLOR_SELECTED ELSE rest],
            arr, k + 1, toggle, final, rest)

\* Step 5, last loop: a pixel in neither group is switched off.
RECURSIVE UngroupedLeds(_, _)
UngroupedLeds(px, i) ==
    IF i >= NUM_MASTER_BUTTONS THEN px
    ELSE UngroupedLeds(
            IF ~InGroup(masterLocationGroup, i) /\ ~InGroup(masterHeightGroup, i)
            THEN [px EXCEPT ![i] = 0] ELSE px,
            i + 1)

PriorityLightPixels(px, T, finalLoc, finalHt) ==
    UngroupedLeds(
        GroupLeds(
            GroupLeds(px, masterLocationGroup, 0, T.toggleMasterLocation,
                      finalLoc, PRIORITY_COLOR_LOCATION),
            masterHeightGroup, 0, T.toggleMasterHeight, finalHt,
            PRIORITY_COLOR_HEIGHT),
        0)

-----------------------------------------------------------------------------
(* State after setup()                                                     *)

MasterInit ==
    /\ variant \in {"W", "P1", "L", "PR"}
    /\ selectedLocationMaster = -1
    /\ selectedLocationSlave = -1
    /\ selectedHeightMaster = -1
    /\ selectedHeightSlave = -1
    /\ hopperSelected = FALSE
    /\ lastMasterPressed = NoneLow(MasterIdx)
    /\ lastSlavePressed = NoneLow(SlaveIdx)
    /\ lastHopperSwitch = FALSE
    /\ joystick = NoneLow(ButtonIdx)
    /\ hidReport = NoneLow(ButtonIdx)
    /\ ledFrame = (IF variant = "PR" THEN PriorityDark ELSE Dark)
    /\ toggleMasterLocation = -1
    /\ toggleMasterHeight = -1
    /\ lastMasterPhysicalState = NoneLow(MasterIdx)
    /\ finalLocationGlobal = -1
    /\ finalHeightGlobal = -1
    /\ busCommands = << >>
    /\ slaveLoc = NO_SELECTION
    /\ slaveHt = NO_SELECTION
    /\ shows = 1
    /\ setButtonCalls = 0
    /\ everPressed = FALSE
    /\ cycled = FALSE
    /\ fetchOk = TRUE
    /\ sent = FALSE
    /\ prev = InitLatch
    /\ risenMaster = {}
    /\ risenSlave = {}
    /\ slaveHolds = << NO_SELECTION, NO_SELECTION >>
    /\ hopperHeld = FALSE
    /\ lastGoodHopper = FALSE
    /\ hopperEdgeOdd = FALSE

\* The bus exchange before the request, with the slave's pins at rest.
BusInit ==
    /\ slaveSketch = "part_000"
    /\ slavePins = NoneLow(SlaveIdx)
    /\ wireBytes = << >>
    /\ slavePressed = NoneLow(SlaveIdx)
    /\ busPhase = "idle"

\* loop() has not been entered yet.
WaitInit ==
    /\ waitPc = "loop"
    /\ elapsed = 0
    /\ available = 0

\* The second board after its setup(): the globals of part_001.
PairInit ==
    twin = [latch |-> InitLatch,
            lastMasterPressed |-> NoneLow(MasterIdx),
            lastSlavePressed |-> NoneLow(SlaveIdx),
            joystick |-> NoneLow(ButtonIdx),
            hidReport |-> NoneLow(ButtonIdx),
            ledFrame |-> Dark]

\* No second board is attached.
NoPair == twin = << >>

\* The slave's loop() before its first pass; part_000's loop() is the
\* delay alone.
SlaveLoopInit ==
    /\ lastSlaveState = NoneLow(SlaveIdx)
    /\ slaveLoopI = 0
    /\ slaveLoopPc = (IF slaveSketch = "SlaveExpander" THEN "read" ELSE "delay")
    /\ slaveLoopPressed = FALSE
    /\ pinsRead = NoneLow(SlaveIdx)

Init == MasterInit /\ BusInit /\ WaitInit /\ NoPair /\ SlaveLoopInit

-----------------------------------------------------------------------------
(* One call of loop()                                                      *)

SetLatch(L) ==
    /\ selectedLocationMaster' = L.selectedLocationMaster
    /\ selectedLocationSlave' = L.selectedLocationSlave
    /\ selectedHeightMaster' = L.selectedHeightMaster
    /\ selectedHeightSlave' = L.selectedHeightSlave
    /\ hopperSelected' = L.hopperSelected

\* What the cycle saw, recorded for the properties: the pin levels, the
\* outcome of the fetch, the latch before the cycle and the rising edges the
\* sketch detected (the hopper of "L" is compared with lastHopperSwitch).
Record(pl, ok, sNow) ==
    LET hopWas == IF variant = "L" THEN lastHopperSwitch ELSE lastSlavePressed[0]
        risen == {i \in SlaveIdx :
                    sNow[i] /\ ~(IF i = 0 THEN hopWas ELSE lastSlavePressed[i])}
    IN  /\ fetchOk' = ok
        /\ prev' = Latch
        /\ risenMaster' = {i \in MasterIdx : pl.m[i] /\ ~lastMasterPressed[i]}
        /\ risenSlave' = risen
        /\ slaveHolds' = slaveHolds
        /\ hopperHeld' = IF ok THEN pl.s[0] ELSE (hopperHeld /\ pl.s[0])
        /\ lastGoodHopper' = IF ok THEN sNow[0] ELSE lastGoodHopper
        /\ hopperEdgeOdd' = IF variant = "L" THEN hopperEdgeOdd
                            ELSE (hopperEdgeOdd # (0 \in risen))
        /\ everPressed' = (everPressed \/ HeldCount(pl.m) + HeldCount(pl.s) > 0)
        /\ cycled' = TRUE

\* MasterWLEDs.ino: the report is rewritten and sent only after a new press.
CycleW(pl, ok) ==
    \E sNow \in {DecodeSlave(FetchBytes(ok, pl.s))} :
    \E L2 \in {SlaveLoop(MasterLoop(Latch, pl.m, lastMasterPressed, 0),
                         sNow, lastSlavePressed, 0)} :
    \E newPressDetected \in
            {NewPressW(pl.m, lastMasterPressed, sNow, lastSlavePressed)} :
    \E j \in {IF newPressDetected THEN WriteButtons(joystick, L2) ELSE joystick} :
        /\ SetLatch(L2)
        /\ lastMasterPressed' = pl.m
        /\ lastSlavePressed' = sNow
        /\ joystick' = j
        /\ hidReport' = IF newPressDetected THEN j ELSE hidReport
        /\ sent' = newPressDetected
        /\ setButtonCalls' = IF newPressDetected THEN WriteButtonsCalls(L2) ELSE 0
        /\ Light(L2)
        /\ Record(pl, ok, sNow)
        /\ UNCHANGED <<variant, lastHopperSwitch, priorityVars, busVars>>

\* part_001: the report is rewritten and sent in every cycle.
CycleP1(pl, ok) ==
    \E sNow \in {DecodeSlave(FetchBytes(ok, pl.s))} :
    \E L2 \in {SlaveLoop(MasterLoop(Latch, pl.m, lastMasterPressed, 0),
                         sNow, lastSlavePressed, 0)} :
    \E j \in {WriteButtons(joystick, L2)} :
        /\ SetLatch(L2)
        /\ lastMasterPressed' = pl.m
        /\ lastSlavePressed' = sNow
        /\ joystick' = j
        /\ hidReport' = j
        /\ sent' = TRUE
        /\ setButtonCalls' = WriteButtonsCalls(L2)
        /\ Light(L2)
        /\ Record(pl, ok, sNow)
        /\ UNCHANGED <<variant, lastHopperSwitch, priorityVars, busVars>>

\* part_002 lines 1-384: the hopper is the level of slave input 0.
CycleL(pl, ok) ==
    \E sNow \in {DecodeSlave(FetchBytes(ok, pl.s))} :
    \E currentHopper \in {sNow[0]} :
    \E L2 \in {SlaveLoopMirror(MasterLoop(Latch, pl.m, lastMasterPressed, 0),
                               sNow, lastSlavePressed, 0)} :
    \E newPressDetected \in
            {NewPressL(pl.m, lastMasterPressed, sNow, lastSlavePressed,
                       currentHopper, lastHopperSwitch)} :
    \E L3 \in {[L2 EXCEPT !.hopperSelected = currentHopper]} :
    \E j \in {IF newPressDetected THEN WriteButtons(joystick, L3) ELSE joystick} :
        /\ SetLatch(L3)
        /\ lastMasterPressed' = pl.m
        /\ lastSlavePressed' = LastSlaveMirror(sNow, lastSlavePressed)
        /\ lastHopperSwitch' = currentHopper
        /\ joystick' = j
        /\ hidReport' = IF newPressDetected THEN j ELSE hidReport
        /\ sent' = newPressDetected
        /\ setButtonCalls' = IF newPressDetected THEN WriteButtonsCalls(L3) ELSE 0
        /\ Light(L3)
        /\ Record(pl, ok, sNow)
        /\ UNCHANGED <<variant, priorityVars, busVars>>

\* part_002 lines 386-668: one cycle of the priority master.  The slave's
\* two bytes are whatever the slave holds: a selection number or 0xFF.
CyclePriority(m, reply, ok) ==
    \E T \in {PriorityMasterLoop(Toggles, m, lastMasterPhysicalState, 0)} :
    \E bytes \in {PriorityFetch(ok, reply)} :
    \E finalLoc \in {FinalGlobal(T.toggleMasterLocation, bytes[1],
                                 slaveLocationMapping)} :
    \E finalHt \in {FinalGlobal(T.toggleMasterHeight, bytes[2],
                                slaveHeightMapping)} :
    \E j \in {PriorityWriteButtons(joystick, finalLoc, finalHt)} :
        /\ toggleMasterLocation' = T.toggleMasterLocation
        /\ toggleMasterHeight' = T.toggleMasterHeight
        /\ lastMasterPhysicalState' = m
        /\ finalLocationGlobal' = finalLoc
        /\ finalHeightGlobal' = finalHt
        /\ busCommands' = ClearCommands(T)
        /\ slaveLoc' = bytes[1]
        /\ slaveHt' = bytes[2]
        /\ joystick' = j
        /\ hidReport' = j
        /\ sent' = TRUE
        /\ setButtonCalls' = PriorityWriteButtonsCalls(finalLoc, finalHt)
        /\ ledFrame' = PriorityLightPixels(ledFrame, T, finalLoc, finalHt)
        /\ shows' = 1
        /\ fetchOk' = ok
        /\ risenMaster' = {i \in MasterIdx : m[i] /\ ~lastMasterPhysicalState[i]}
        /\ slaveHolds' = IF ok THEN reply ELSE slaveHolds
        /\ everPressed' = (everPressed \/ HeldCount(m) > 0)
        /\ cycled' = TRUE
        /\ UNCHANGED <<variant, selectedLocationMaster, selectedLocationSlave,
                       selectedHeightMaster, selectedHeightSlave,
                       hopperSelected, lastMasterPressed, lastSlavePressed,
                       lastHopperSwitch, prev, risenSlave, hopperHeld,
                       lastGoodHopper, hopperEdgeOdd, busVars>>

\* One cycle: the pins are sampled, then the fetch succeeds or times out.
LoopW ==
    /\ variant = "W"
    /\ \/ \E pl \in PinLevels : CycleW(pl, TRUE)
       \/ \E pl \in PinLevelsUnread : CycleW(pl, FALSE)
    /\ UNCHANGED <<waitVars, pairVars, slaveVars>>

LoopP1 ==
    /\ variant = "P1"
    /\ \/ \E pl \in PinLevels : CycleP1(pl, TRUE)
       \/ \E pl \in PinLevelsUnread : CycleP1(pl, FALSE)
    /\ UNCHANGED <<waitVars, pairVars, slaveVars>>

LoopL ==
    /\ variant = "L"
    /\ \/ \E pl \in PinLevels : CycleL(pl, TRUE)
       \/ \E pl \in PinLevelsUnread : CycleL(pl, FALSE)
    /\ UNCHANGED <<waitVars, pairVars, slaveVars>>

LoopPriority ==
    /\ variant = "PR"
    /\ \E m \in MasterLevels :
        \/ \E reply \in SlaveReplies : CyclePriority(m, reply, TRUE)
        \/ CyclePriority(m, << NO_SELECTION, NO_SELECTION >>, FALSE)
    /\ UNCHANGED <<waitVars, pairVars, slaveVars>>

Next == LoopW \/ LoopP1 \/ LoopL \/ LoopPriority

Spec == Init /\ [][Next]_vars

\* The masters one at a time, and the two toggle-flip masters.
InitW == Init /\ variant = "W"
InitP1 == Init /\ variant = "P1"
InitL == Init /\ variant = "L"
InitFlip == Init /\ variant \in {"W", "P1"}
NextFlip == LoopW \/ LoopP1

InitPriority == Init /\ variant = "PR"
SpecPriority == InitPriority /\ [][LoopPriority]_vars

\* The priority master against every byte pair: local presses while the
\* slave does not answer, then the slave's first answer.  In the very first
\* cycle the answer is any of the 65536 pairs; after local presses it is any
\* value of one byte with the other byte at an edge of its ranges.
AllBytes == 0 .. 255
ByteEdges == {0, 1, 2, 7, 8, 255}
FirstAnswers ==
    IF cycled THEN (AllBytes \X ByteEdges) \cup (ByteEdges \X AllBytes)
              ELSE AllBytes \X AllBytes
NoAnswerYet == slaveLoc = NO_SELECTION /\ slaveHt = NO_SELECTION
LoopUnanswered ==
    /\ variant = "PR" /\ NoAnswerYet
    /\ \E m \in MasterLevels :
            CyclePriority(m, << NO_SELECTION, NO_SELECTION >>, FALSE)
    /\ UNCHANGED <<waitVars, pairVars, slaveVars>>
LoopFirstAnswer ==
    /\ variant = "PR" /\ NoAnswerYet
    /\ HeldCount(lastMasterPhysicalState) = 0
    /\ \E reply \in FirstAnswers :
            CyclePriority(lastMasterPhysicalState, reply, TRUE)
    /\ UNCHANGED <<waitVars, pairVars, slaveVars>>
NextBytes == LoopUnanswered \/ LoopFirstAnswer
SpecBytes == InitPriority /\ [][NextBytes]_vars

SpecW == InitW /\ [][LoopW]_vars
SpecP1 == InitP1 /\ [][LoopP1]_vars
SpecL == InitL /\ [][LoopL]_vars
SpecFlip == InitFlip /\ [][NextFlip]_vars

\* loop() of part_001 on the second board: the state t after one cycle with
\* pin levels pl and fetch outcome ok.
PartOneStep(t, pl, ok) ==
    LET sNow == DecodeSlave(FetchBytes(ok, pl.s))
        L2 == SlaveLoop(MasterLoop(t.latch, pl.m, t.lastMasterPressed, 0),
                        sNow, t.lastSlavePressed, 0)
        j == WriteButtons(t.joystick, L2)
    IN  [latch |-> L2,
         lastMasterPressed |-> pl.m,
         lastSlavePressed |-> sNow,
         joystick |-> j,
         hidReport |-> j,
         ledFrame |-> LightPixels(t.ledFrame, L2)]

\* MasterWLEDs.ino and part_001 side by side: each cycle both sample the same
\* pin levels and see the same fetch outcome.
LoopPair ==
    /\ variant = "W"
    /\ \/ \E pl \in PinLevels :
            CycleW(pl, TRUE) /\ twin' = PartOneStep(twin, pl, TRUE)
       \/ \E pl \in PinLevelsUnread :
            CycleW(pl, FALSE) /\ twin' = PartOneStep(twin, pl, FALSE)
    /\ UNCHANGED <<waitVars, slaveVars>>

InitPair ==
    MasterInit /\ variant = "W" /\ BusInit /\ WaitInit /\ PairInit /\ SlaveLoopInit
SpecPair == InitPair /\ [][LoopPair]_vars

-----------------------------------------------------------------------------
(* One bus exchange, for every combination of the slave's pin levels        *)

\* Wire.requestFrom reaches the 8+3 slave: requestEvent reads the pins and
\* writes two bytes.
SlaveAnswers000 ==
    /\ slaveSketch = "part_000" /\ busPhase = "idle"
    /\ wireBytes' = requestEvent(slavePins)
    /\ busPhase' = "answered"
    /\ UNCHANGED <<masterVars, waitVars, pairVars, slaveVars,
                   slaveSketch, slavePins, slavePressed>>

\* The same request reaches the slave of SlaveExpander.ino.
SlaveAnswersExpander ==
    /\ slaveSketch = "SlaveExpander" /\ busPhase = "idle"
    /\ wireBytes' = requestEventExpander(slavePins)
    /\ busPhase' = "answered"
    /\ UNCHANGED <<masterVars, waitVars, pairVars, slaveVars,
                   slaveSketch, slavePins, slavePressed>>

\* The master of MasterWLEDs.ino reads the two bytes and fills slavePressed[].
MasterDecodes ==
    /\ busPhase = "answered" /\ Len(wireBytes) >= 2
    /\ slavePressed' = DecodeSlave(<< wireBytes[1], wireBytes[2] >>)
    /\ busPhase' = "decoded"
    /\ UNCHANGED <<masterVars, waitVars, pairVars, slaveVars,
                   slaveSketch, slavePins, wireBytes>>

InitBus ==
    /\ MasterInit /\ variant = "W" /\ WaitInit /\ NoPair
    /\ slaveSketch \in {"part_000", "SlaveExpander"}
    /\ slavePins \in [SlaveIdx -> BOOLEAN]
    /\ wireBytes = << >>
    /\ slavePressed = NoneLow(SlaveIdx)
    /\ busPhase = "idle"
    /\ SlaveLoopInit

NextBus == SlaveAnswers000 \/ SlaveAnswersExpander \/ MasterDecodes

SpecBus == InitBus /\ [][NextBus]_vars

-----------------------------------------------------------------------------
(* The slave sketch: loop() and the request handler that interrupts it     *)

\* The pins that move in this part: bit 0 of byte 1, the first index the two
\* packings place differently, and the last index.
ExtenderPool == {0, 7, 10}

\* The buttons are pressed and released between any two steps.
SlavePinsChange ==
    /\ \E P \in SUBSET ExtenderPool :
            /\ slavePins' = LowAt(SlaveIdx, P)
            /\ slavePins' # slavePins
    /\ UNCHANGED <<masterVars, waitVars, pairVars, slaveVars,
                   slaveSketch, wireBytes, slavePressed, busPhase>>

\* SlaveExpander.ino loop(): bool pressed = (digitalRead(slavePins[i]) == LOW)
ExpanderLoopRead ==
    /\ slaveSketch = "SlaveExpander" /\ slaveLoopPc = "read"
    /\ slaveLoopPressed' = slavePins[slaveLoopI]
    /\ slaveLoopPc' = "write"
    /\ UNCHANGED <<masterVars, waitVars, pairVars, busVars,
                   lastSlaveState, slaveLoopI, pinsRead>>

\* SlaveExpander.ino loop(): lastSlaveState[i] = pressed; i++
ExpanderLoopWrite ==
    /\ slaveSketch = "SlaveExpander" /\ slaveLoopPc = "write"
    /\ lastSlaveState' = [lastSlaveState EXCEPT ![slaveLoopI] = slaveLoopPressed]
    /\ slaveLoopI' = slaveLoopI + 1
    /\ slaveLoopPc' = (IF slaveLoopI + 1 < NUM_SLAVE_BUTTONS THEN "read" ELSE "delay")
    /\ UNCHANGED <<masterVars, waitVars, pairVars, busVars,
                   slaveLoopPressed, pinsRead>>

\* SlaveExpander.ino loop(): delay(50), and loop() is entered again.
ExpanderLoopDelay ==
    /\ slaveSketch = "SlaveExpander" /\ slaveLoopPc = "delay"
    /\ slaveLoopI' = 0
    /\ slaveLoopPc' = "read"
    /\ UNCHANGED <<masterVars, waitVars, pairVars, busVars,
                   lastSlaveState, slaveLoopPressed, pinsRead>>

\* The master's request interrupts the slave wherever its loop() stands:
\* requestEvent reads the pins and writes two bytes.  (The loop() of
\* part_000 is delay(50) alone and has no step that changes state.)
RequestInterrupts ==
    /\ wireBytes' = (IF slaveSketch = "part_000"
                     THEN requestEvent(slavePins)
                     ELSE requestEventExpander(slavePins))
    /\ pinsRead' = slavePins
    /\ busPhase' = "answered"
    /\ UNCHANGED <<masterVars, waitVars, pairVars, slaveSketch, slavePins,
                   slavePressed, lastSlaveState, slaveLoopI, slaveLoopPc,
                   slaveLoopPressed>>

InitSlave ==
    /\ MasterInit /\ variant = "W" /\ WaitInit /\ NoPair
    /\ slaveSketch \in {"part_000", "SlaveExpander"}
    /\ slavePins = NoneLow(SlaveIdx)
    /\ wireBytes = << >>
    /\ slavePressed = NoneLow(SlaveIdx)
    /\ busPhase = "idle"
    /\ SlaveLoopInit

NextSlave ==
    \/ SlavePinsChange
    \/ ExpanderLoopRead \/ ExpanderLoopWrite \/ ExpanderLoopDelay
    \/ RequestInterrupts

SpecSlave == InitSlave /\ [][NextSlave]_vars

-----------------------------------------------------------------------------
(* One cycle step by step: the bounded wait for the slave's two bytes       *)

WAIT_LIMIT_MS == 50

\* The argument of the delay() inside the wait loop.
WaitStep(v) == IF v = "PR" THEN 5 ELSE 1

Min2(a, b) == IF a <= b THEN a ELSE b

\* Mutant: the wait loop has no time limit.
WaitGoesOn_NoTimeout(av, el) == av < 2

\* while (Wire.available() < 2 && (millis() - t0) < 50)
WaitGoesOn(av, el) == av < 2 /\ el < WAIT_LIMIT_MS

\* The pin levels and slave replies of the cycles followed step by step:
\* nothing pressed, or local location 5 held down.
WaitLevels ==
    {pl \in PinLevelsUnread :
        /\ HeldCount(pl.s) = 0
        /\ \A i \in MasterIdx : pl.m[i] => i = 5}
WaitReplies == {<< NO_SELECTION, NO_SELECTION >>, << 0, 1 >>}

\* Wire.requestFrom(SLAVE_ADDR, 2); t0 = millis(): zero, one or two bytes
\* are in the receive buffer when the call returns.
RequestFrom ==
    /\ waitPc = "loop"
    /\ waitPc' = "wait"
    /\ elapsed' = 0
    /\ \E n \in 0 .. 2 : available' = n
    /\ UNCHANGED <<masterVars, busVars, pairVars, slaveVars>>

\* One pass of the wait loop: delay(1) (delay(5) in "PR") lasts the time
\* asked for or a millisecond more.  The elapsed time is followed up to the
\* first values at which the loop ends.
DelayInWait ==
    /\ waitPc = "wait"
    /\ WaitGoesOn(available, elapsed)
    /\ \E d \in {WaitStep(variant), WaitStep(variant) + 1} :
            elapsed' = Min2(elapsed + d, WAIT_LIMIT_MS + WaitStep(variant))
    /\ UNCHANGED <<waitPc, available, masterVars, busVars, pairVars, slaveVars>>

\* The bus interrupt stores a byte of the answer while the master waits.
ByteArrives ==
    /\ waitPc = "wait"
    /\ available < 2
    /\ available' = available + 1
    /\ UNCHANGED <<waitPc, elapsed, masterVars, busVars, pairVars, slaveVars>>

\* The wait loop is left; the rest of loop() runs with the bytes that
\* arrived (if (Wire.available() >= 2) ...) up to masterStrip.show().
CycleAfterWait ==
    /\ waitPc = "wait"
    /\ ~WaitGoesOn(available, elapsed)
    /\ \E ok \in {available >= 2} :
        \/ variant = "W" /\ \E pl \in WaitLevels : CycleW(pl, ok)
        \/ variant = "P1" /\ \E pl \in WaitLevels : CycleP1(pl, ok)
        \/ variant = "L" /\ \E pl \in WaitLevels : CycleL(pl, ok)
        \/ variant = "PR" /\ \E pl \in WaitLevels : \E reply \in WaitReplies :
                CyclePriority(pl.m, reply, ok)
    /\ waitPc' = "delay"
    /\ UNCHANGED <<elapsed, available, pairVars, slaveVars>>

\* The delay(50) (delay(100) in "PR") that ends loop(); t0 goes out of scope.
EndDelay ==
    /\ waitPc = "delay"
    /\ waitPc' = "loop"
    /\ elapsed' = 0
    /\ available' = 0
    /\ UNCHANGED <<masterVars, busVars, pairVars, slaveVars>>

NextWait ==
    RequestFrom \/ DelayInWait \/ ByteArrives \/ CycleAfterWait \/ EndDelay

\* The processor keeps executing loop() and the millisecond timer keeps
\* counting; nothing is assumed about the slave.
SpecWait ==
    /\ Init
    /\ [][NextWait]_vars
    /\ WF_vars(DelayInWait)
    /\ WF_vars(CycleAfterWait)
    /\ WF_vars(EndDelay)

-----------------------------------------------------------------------------
(* Properties                                                              *)

\* Rising edges of the last cycle, by category.
RisenM(cat) == {i \in risenMaster : masterButtonType[i] = cat}
RisenS(cat) == {i \in risenSlave : slaveButtonType[i] = cat}
SetMax(S) == CHOOSE x \in S : \A y \in S : y <= x

\* The selection of a category as a pair <<master index, slave index>>.
Selection(L, cat) ==
    IF cat = "LOCATION"
    THEN << L.selectedLocationMaster, L.selectedLocationSlave >>
    ELSE << L.selectedHeightMaster, L.selectedHeightSlave >>

\* The report the latch stands for: true at the output index of the active
\* location, of the active height, and at 13 iff the hopper is on.
Projection(L) ==
    [b \in ButtonIdx |->
        \/ (L.selectedLocationMaster # -1 /\ b = L.selectedLocationMaster)
        \/ (L.selectedLocationSlave # -1
                /\ b = slaveJoystickIndex[L.selectedLocationSlave])
        \/ (L.selectedHeightMaster # -1 /\ b = L.selectedHeightMaster)
        \/ (L.selectedHeightSlave # -1
                /\ b = slaveJoystickIndex[L.selectedHeightSlave])
        \/ (b = 13 /\ L.hopperSelected)]

\* C1: in "W", "P1" and "L", in every reachable state the location is never
\* selected on both boards at once, and neither is the height.
C1_AtMostOneActive ==
    /\ ~(selectedLocationMaster # -1 /\ selectedLocationSlave # -1)
    /\ ~(selectedHeightMaster # -1 /\ selectedHeightSlave # -1)

\* C1 witness: a cycle moved the location from the master to the slave and
\* the height from the slave to the master.
C1_Witness ==
    /\ prev.selectedLocationMaster # -1 /\ selectedLocationSlave # -1
    /\ prev.selectedHeightSlave # -1 /\ selectedHeightMaster # -1

\* C2: in "W" and "P1", after a cycle with exactly one rising edge of a
\* category (on either board) the selection of that category is exactly the
\* pressed channel, whatever was selected before.
C2_LastWriterWins ==
    \A cat \in {"LOCATION", "HEIGHT"} :
        (Cardinality(RisenM(cat)) + Cardinality(RisenS(cat)) = 1) =>
            /\ \A i \in RisenM(cat) : Selection(Latch, cat) = << i, -1 >>
            /\ \A i \in RisenS(cat) : Selection(Latch, cat) = << -1, i >>

\* C2 witness: the only location edge of a cycle was a local one, and it
\* took the location from a remote channel.
C2_Witness ==
    /\ Cardinality(RisenM("LOCATION")) = 1
    /\ RisenS("LOCATION") = {}
    /\ prev.selectedLocationSlave # -1
    /\ selectedLocationMaster \in RisenM("LOCATION")

\* C3: in "W" and "P1", a failed fetch does not disturb remote edge
\* detection: a hopper button that is down at a good fetch, stays down
\* through the failed fetches after it and is still down at the next good
\* fetch gives no second rising edge, so hopperSelected is not flipped again.
C3_HeldHopperFlipsOnce ==
    [][(fetchOk' /\ hopperHeld /\ hopperHeld') =>
            (hopperSelected' = hopperSelected)]_vars

\* C4: in "W" and "P1", a cycle whose fetch timed out and that saw no local
\* rising edge leaves the four selection indices and hopperSelected as they
\* were.
C4_TimeoutKeepsLatch ==
    (~fetchOk /\ risenMaster = {}) => Latch = prev

\* C4 witness: such a cycle, with a remote location and the hopper latched
\* and the hopper button held down during the failed fetch.
C4_Witness ==
    /\ ~fetchOk /\ risenMaster = {}
    /\ prev.selectedLocationSlave # -1 /\ prev.hopperSelected
    /\ hopperHeld

\* C5: in "L", a cycle whose fetch timed out and that saw no local rising
\* edge leaves the selections and hopperSelected as they were and commits
\* no HID report.
C5_TimeoutKeepsLatchMirror ==
    (~fetchOk /\ risenMaster = {}) => (Latch = prev /\ ~sent)

\* C6: in "L", after every cycle hopperSelected is the hopper bit of the
\* most recent successful fetch, and a cycle that observes the hopper value
\* of the previous cycle leaves hopperSelected unchanged.
C6_HopperMirrorsLastGoodFetch ==
    [][/\ hopperSelected' = lastGoodHopper'
       /\ (lastHopperSwitch' = lastHopperSwitch) =>
              (hopperSelected' = hopperSelected)]_vars

\* C7: in "W" and "P1", every rising edge of the remote hopper channel
\* negates hopperSelected, and hopperSelected is the parity of the hopper
\* rising edges seen since startup (so two edges restore it).
C7_HopperParity ==
    /\ (0 \in risenSlave) => (hopperSelected = ~prev.hopperSelected)
    /\ (0 \notin risenSlave) => (hopperSelected = prev.hopperSelected)
    /\ hopperSelected = hopperEdgeOdd

\* C7 witness: a hopper edge that brought the count of edges to an even,
\* positive number: hopperSelected is back to off.
C7_Witness ==
    /\ 0 \in risenSlave /\ fetchOk
    /\ ~hopperEdgeOdd /\ ~hopperSelected /\ prev.hopperSelected

C9_ReportIsProjection ==
    sent => hidReport = Projection(Latch)

\* C9 witness: a committed report with a location, a height and the hopper
\* on, one cycle after another location was reported.
C9_Witness ==
    /\ sent /\ hopperSelected
    /\ selectedLocationMaster # -1 /\ selectedHeightSlave # -1
    /\ prev.selectedLocationSlave # -1

\* C10: in "W", at the end of every cycle the report last committed equals
\* the projection of the current latch, also after cycles that did not
\* rewrite it.
C10_ReportNeverStale ==
    hidReport = Projection(Latch)

\* C10 witness: a cycle without a new press (nothing sent) while a remote
\* location and the hopper are latched.
C10_Witness ==
    /\ ~sent
    /\ selectedLocationSlave # -1 /\ hopperSelected
    /\ hidReport[slaveJoystickIndex[selectedLocationSlave]]

\* The 24 channels: <<"M", i>> is local button i, <<"S", i>> remote button i.
Channels == ({"M"} \X MasterIdx) \cup ({"S"} \X SlaveIdx)
ChanType(c) == IF c[1] = "M" THEN masterButtonType[c[2]] ELSE slaveButtonType[c[2]]
ChanOut(c) == IF c[1] = "M" THEN c[2] ELSE slaveJoystickIndex[c[2]]
ChanLed(c) == IF c[1] = "M" THEN masterLedIndex[c[2]] ELSE slaveLedIndex[c[2]]

\* The channels of a category whose HID button is true in the committed
\* report, and those whose LED shows the category's selected colour.
HidMarked(cat) ==
    {c \in Channels : ChanType(c) = cat /\ hidReport[ChanOut(c)]}
LedMarked(cat) ==
    {c \in Channels : ChanType(c) = cat /\ ledFrame[ChanLed(c)] = ColorOf(cat, TRUE)}

\* C11: in "W" and "L", at the end of every cycle the committed HID report
\* and the committed LED frame each mark at most one LOCATION channel and at
\* most one HEIGHT channel, local and remote channels counted together.
C11_OutputsMarkAtMostOne ==
    variant \in {"W", "L"} =>
        \A cat \in {"LOCATION", "HEIGHT"} :
            /\ Cardinality(HidMarked(cat)) <= 1
            /\ Cardinality(LedMarked(cat)) <= 1

\* C11 witness: in "L", a cycle took the location from a local channel to a
\* remote one while a height is latched; report and LEDs mark the remote
\* channel only.
C11_Witness ==
    /\ variant = "L"
    /\ prev.selectedLocationMaster # -1 /\ selectedLocationSlave # -1
    /\ HidMarked("LOCATION") = {<< "S", selectedLocationSlave >>}
    /\ LedMarked("LOCATION") = {<< "S", selectedLocationSlave >>}
    /\ Cardinality(HidMarked("HEIGHT")) = 1
    /\ Cardinality(LedMarked("HEIGHT")) = 1

\* The channels of a category with a rising edge in the last cycle, the one
\* of them processed last (local channels ascending, then remote channels
\* ascending), and the channel that held the category before the cycle.
RisenChannels(cat) == ({"M"} \X RisenM(cat)) \cup ({"S"} \X RisenS(cat))
LastRisen(cat) ==
    IF RisenS(cat) # {} THEN {<< "S", SetMax(RisenS(cat)) >>}
    ELSE IF RisenM(cat) # {} THEN {<< "M", SetMax(RisenM(cat)) >>}
    ELSE {}
PrevActive(cat) ==
    {c \in Channels :
        /\ ChanType(c) = cat
        /\ c[2] = Selection(prev, cat)[IF c[1] = "M" THEN 1 ELSE 2]}

\* C12 as stated: in "W" and "P1", when a LOCATION channel of one source
\* held the selection and a LOCATION channel of the other source has a
\* rising edge, the report committed in that cycle has the HID bit of the
\* pressed channel true and the bit of the previously selected channel false.
C12_AnyCrossPressTakesReport ==
    \A c \in RisenChannels("LOCATION") : \A o \in PrevActive("LOCATION") :
        c[1] # o[1] =>
            (sent /\ hidReport[ChanOut(c)] /\ ~hidReport[ChanOut(o)])

\* C12 amended: the same, for the pressed channel that is the last LOCATION
\* channel with a rising edge in the processing order of that cycle.
C12_LastCrossPressTakesReport ==
    \A c \in LastRisen("LOCATION") : \A o \in PrevActive("LOCATION") :
        c[1] # o[1] =>
            (sent /\ hidReport[ChanOut(c)] /\ ~hidReport[ChanOut(o)])

\* C12 witness: a remote location was latched and two local locations rose
\* in one cycle; the report has the higher local one and not the remote one.
C12_Witness ==
    /\ prev.selectedLocationSlave # -1
    /\ Cardinality(RisenM("LOCATION")) = 2 /\ RisenS("LOCATION") = {}
    /\ sent
    /\ hidReport[SetMax(RisenM("LOCATION"))]
    /\ ~hidReport[slaveJoystickIndex[prev.selectedLocationSlave]]

\* C13: in "W", a cycle in which no local and no remote channel has a rising
\* edge calls neither Joystick.setButton nor Joystick.sendState, and the
\* committed report (and the Joystick object's buttons) stay as they were.
C13_NoEdgeNoCommit ==
    [][(risenMaster' = {} /\ risenSlave' = {}) =>
            /\ setButtonCalls' = 0
            /\ ~sent'
            /\ hidReport' = hidReport
            /\ joystick' = joystick]_vars

\* C13 witness: a cycle without an edge and without a commit, its fetch
\* timed out, while the local location button that is latched and reported
\* is still held down.
C13_Witness ==
    /\ risenMaster = {} /\ risenSlave = {} /\ ~fetchOk
    /\ setButtonCalls = 0 /\ ~sent
    /\ selectedLocationMaster # -1
    /\ lastMasterPressed[selectedLocationMaster]
    /\ hidReport[selectedLocationMaster]

\* C14: in every master ("W", "P1", "L" and "PR") every cycle of loop()
\* calls masterStrip.show() exactly once, also when the fetch timed out and
\* when no HID report was committed (setup() shows the dark strip once, too).
C14_ShowOncePerCycle ==
    shows = 1

\* C14 witness: in "W", a cycle whose fetch timed out and that committed no
\* report, shown once with the latched remote location lit.
C14_Witness ==
    /\ variant = "W" /\ ~fetchOk /\ ~sent /\ shows = 1
    /\ selectedLocationSlave # -1
    /\ ledFrame[slaveLedIndex[selectedLocationSlave]] = COLOR_LOC_SELECTED

\* The channel holding a category in latch L (none, or one by C1), and
\* whether channel c is shown as selected under L.
ActiveChannels(L, cat) ==
    {c \in Channels :
        /\ ChanType(c) = cat
        /\ c[2] = Selection(L, cat)[IF c[1] = "M" THEN 1 ELSE 2]}
IsActive(L, c) ==
    \/ c \in ActiveChannels(L, "LOCATION")
    \/ c \in ActiveChannels(L, "HEIGHT")
    \/ (ChanType(c) = "HOPPER" /\ L.hopperSelected)

\* C15: in "W" and "P1", the frame committed by a cycle has, at the LED
\* index of every channel, the selected colour of the channel's category if
\* the channel is the active location, the active height, or the hopper
\* with hopperSelected true, and the unselected colour of its category
\* otherwise.
C15_FrameIsColourOfLatch ==
    cycled =>
        \A c \in Channels :
            ledFrame[ChanLed(c)] = ColorOf(ChanType(c), IsActive(Latch, c))

\* C15 witness: a frame with a local location, a remote height and the
\* hopper lit as selected, committed by a cycle whose fetch timed out.
C15_Witness ==
    /\ cycled /\ ~fetchOk
    /\ selectedLocationMaster # -1 /\ selectedHeightSlave # -1 /\ hopperSelected
    /\ ledFrame[masterLedIndex[selectedLocationMaster]] = COLOR_LOC_SELECTED
    /\ ledFrame[slaveLedIndex[selectedHeightSlave]] = COLOR_HT_SELECTED
    /\ ledFrame[slaveLedIndex[0]] = COLOR_HOP_SELECTED

\* The three 'selected' colours.
SelectedColours == {COLOR_LOC_SELECTED, COLOR_HT_SELECTED, COLOR_HOP_SELECTED}

\* C16: in "W", "P1" and "L", at startup and as long as no pin has been LOW
\* in any cycle, no location and no height is selected, hopperSelected is
\* false, every HID button is false (in the Joystick object and in the
\* committed report) and no pixel shows a 'selected' colour.
C16_QuietUntilFirstPress ==
    (variant \in {"W", "P1", "L"} /\ ~everPressed) =>
        /\ Latch = InitLatch
        /\ \A b \in ButtonIdx : ~hidReport[b] /\ ~joystick[b]
        /\ \A p \in LedIdx : ledFrame[p] \notin SelectedColours

\* C16 witness: in "L", a cycle has run with no pin ever LOW and its fetch
\* timed out; the hopper pixel shows the unselected green.
C16_Witness ==
    /\ variant = "L" /\ ~everPressed /\ cycled /\ ~fetchOk
    /\ ledFrame[slaveLedIndex[0]] = COLOR_HOP_NOT_PRESSED
    /\ ~hopperSelected

\* C17: for every combination of the 11 pin levels, the two bytes written
\* by requestEvent of part_000 and decoded by the master of MasterWLEDs.ino
\* give slavePressed[i] = (pin i is LOW) for every i in 0..10.
C17_RoundTrip83 ==
    (slaveSketch = "part_000" /\ busPhase = "decoded") =>
        \A i \in SlaveIdx : slavePressed[i] = slavePins[i]

\* C17 witness: the exchange done with all 11 pins LOW, so that both bytes
\* carry every bit they can.
C17_Witness ==
    /\ slaveSketch = "part_000" /\ busPhase = "decoded"
    /\ \A i \in SlaveIdx : slavePins[i] /\ slavePressed[i]
    /\ wireBytes = << 255, 7 >>

\* C18: the same round trip with the slave of SlaveExpander.ino: the master
\* recovers the pressed state of every slave index, for every combination
\* of pin levels.
C18_RoundTripExpander ==
    (slaveSketch = "SlaveExpander" /\ busPhase = "decoded") =>
        \A i \in SlaveIdx : slavePressed[i] = slavePins[i]

\* C19: requestEvent of SlaveExpander.ino writes exactly two bytes; bit i of
\* byte 1 is set iff pin i is LOW (i in 0..6), bit i-7 of byte 2 is set iff
\* pin i is LOW (i in 7..10), and bit 7 of byte 1 and bits 4..7 of byte 2
\* are 0.
C19_ExpanderPacking ==
    (slaveSketch = "SlaveExpander" /\ busPhase # "idle") =>
        /\ Len(wireBytes) = 2
        /\ \A i \in 0 .. 6 : BitIsSet(wireBytes[1], i) = slavePins[i]
        /\ \A i \in 7 .. 10 : BitIsSet(wireBytes[2], i - 7) = slavePins[i]
        /\ ~BitIsSet(wireBytes[1], 7)
        /\ \A k \in 4 .. 7 : ~BitIsSet(wireBytes[2], k)

\* C19 witness: the answer for pins 6, 7 and 10 LOW: bit 6 of byte 1, bits
\* 0 and 3 of byte 2.
C19_Witness ==
    /\ slaveSketch = "SlaveExpander" /\ busPhase = "answered"
    /\ slavePins = LowAt(SlaveIdx, {6, 7, 10})
    /\ wireBytes = << 64, 9 >>

\* C20: the channel tables of MasterWLEDs.ino are collision-free: the 24
\* HID output indices are pairwise distinct and lie in 0..23, the 24 LED
\* indices are pairwise distinct and lie in 0..47, and every channel has one
\* of the three categories.
C20_ConfigCollisionFree ==
    variant = "W" =>
        /\ \A c, d \in Channels :
                c # d => (ChanOut(c) # ChanOut(d) /\ ChanLed(c) # ChanLed(d))
        /\ \A c \in Channels :
                /\ ChanOut(c) \in 0 .. (NUM_BUTTONS - 1)
                /\ ChanLed(c) \in 0 .. (MASTER_NUM_LEDS - 1)
                /\ ChanType(c) \in {"LOCATION", "HEIGHT", "HOPPER"}
        /\ Cardinality(Channels) = NUM_BUTTONS

\* C20 witness: in "W", remote location 10 and local height 4 are latched:
\* HID buttons 23 and 4 are reported, pixels 23 and 3 are lit as selected,
\* and the frame has 24 lit pixels, one per channel.
C20_Witness ==
    /\ variant = "W" /\ cycled
    /\ selectedLocationSlave = 10 /\ selectedHeightMaster = 4
    /\ hidReport[23] /\ hidReport[4]
    /\ ledFrame[23] = COLOR_LOC_SELECTED /\ ledFrame[3] = COLOR_HT_SELECTED
    /\ Cardinality({p \in LedIdx : ledFrame[p] # 0}) = NUM_BUTTONS

\* C21: in every master, a cycle that has sent its request leaves the wait
\* for the two bytes and reaches masterStrip.show() and the delay that ends
\* loop(), whether the slave answers at once, late or never.
C21_WaitEndsCycleCompletes ==
    (waitPc = "wait") ~> (waitPc = "delay" /\ shows = 1 /\ cycled)

\* C21 witness: a cycle stands in its final delay after the slave sent no
\* byte at all and the 50 ms ran out; the frame was shown.
C21_Witness ==
    /\ waitPc = "delay" /\ available = 0 /\ elapsed >= WAIT_LIMIT_MS
    /\ ~fetchOk /\ shows = 1 /\ cycled

-----------------------------------------------------------------------------
(* The priority master: local selection over the slave's                    *)

\* C22: after every cycle of the priority master the final location is the
\* local toggle when one is active, else the HID button the mapping table
\* gives for the location the slave reported (0..7), else none when the
\* slave reported 0xFF or the fetch timed out; the same holds for the final
\* height with the two-entry height table.
C22_MasterOverridesSlave ==
    (variant = "PR" /\ cycled) =>
        /\ toggleMasterLocation # -1 => finalLocationGlobal = toggleMasterLocation
        /\ (toggleMasterLocation = -1 /\ slaveLoc \in 0 .. 7) =>
                finalLocationGlobal =
                    <<13, 14, 15, 18, 19, 20, 22, 23>>[slaveLoc + 1]
        /\ (toggleMasterLocation = -1 /\ slaveLoc = 255) =>
                finalLocationGlobal = -1
        /\ toggleMasterHeight # -1 => finalHeightGlobal = toggleMasterHeight
        /\ (toggleMasterHeight = -1 /\ slaveHt \in 0 .. 1) =>
                finalHeightGlobal = <<16, 17>>[slaveHt + 1]
        /\ (toggleMasterHeight = -1 /\ slaveHt = 255) =>
                finalHeightGlobal = -1

\* The slave reports a location and a height; the local location is active
\* and wins, the height comes from the slave.
C22_Witness ==
    /\ variant = "PR" /\ fetchOk
    /\ toggleMasterLocation = 5 /\ slaveLoc = 0 /\ finalLocationGlobal = 5
    /\ toggleMasterHeight = -1 /\ slaveHt = 1 /\ finalHeightGlobal = 17

\* The local buttons of each category of the priority master, and the bytes
\* written to the slave in the last cycle.
LocalLocations == {0, 1, 2, 5, 7, 8, 9, 11}
LocalHeights == {3, 4, 6, 10, 12}
CommandsSent == {busCommands[k] : k \in 1 .. Len(busCommands)}

\* C23: every cycle of the priority master with a rising edge on a local
\* LOCATION button writes the clear-location command (0x01) to the slave in
\* that cycle, and every cycle with a rising edge on a local HEIGHT button
\* writes the clear-height command (0x02).
C23_EdgeSendsClear ==
    variant = "PR" =>
        /\ risenMaster \cap LocalLocations # {} => 1 \in CommandsSent
        /\ risenMaster \cap LocalHeights # {} => 2 \in CommandsSent

\* A location and a height button rise in the same cycle: both commands go out.
C23_Witness ==
    /\ variant = "PR"
    /\ risenMaster = {4, 5}
    /\ busCommands = <<1, 2>>

\* C24: a cycle of the priority master whose fetch times out and in which no
\* local button has a rising edge ends with the final location, the final
\* height and the committed HID report it started with.
C24_TimeoutKeepsFinals ==
    [][(variant = "PR" /\ ~fetchOk' /\ risenMaster' = {}) =>
            /\ finalLocationGlobal' = finalLocationGlobal
            /\ finalHeightGlobal' = finalHeightGlobal
            /\ hidReport' = hidReport]_vars

-----------------------------------------------------------------------------
(* Release, hold and independence                                          *)

\* No channel goes from released to pressed in the step.  The local pins are
\* sampled in every cycle.  A remote input counts as level only when it was
\* already pressed the last time the master read it and has been since (the
\* hopper pin through timed-out cycles is followed by hopperHeld; the other
\* remote pins are at rest in those).  The slave of the priority master keeps
\* the selections it last answered.
NoLocalRise ==
    IF variant = "PR"
    THEN \A i \in MasterIdx :
            lastMasterPhysicalState'[i] => lastMasterPhysicalState[i]
    ELSE \A i \in MasterIdx : lastMasterPressed'[i] => lastMasterPressed[i]
NoRemoteRise ==
    IF variant = "PR"
    THEN slaveHolds' = slaveHolds
    ELSE /\ \A i \in SlaveIdx \ {0} : lastSlavePressed'[i] => lastSlavePressed[i]
         /\ (IF variant = "L" THEN lastHopperSwitch' ELSE lastSlavePressed'[0])
                => hopperHeld

\* C25: in every master, a cycle with a successful fetch in which no channel
\* goes from released to pressed leaves the LOCATION and HEIGHT selections
\* as they were, and in the toggle-flip masters hopperSelected as well.
C25_ReleaseKeepsSelection ==
    [][(fetchOk' /\ NoLocalRise /\ NoRemoteRise) =>
            /\ selectedLocationMaster' = selectedLocationMaster
            /\ selectedLocationSlave' = selectedLocationSlave
            /\ selectedHeightMaster' = selectedHeightMaster
            /\ selectedHeightSlave' = selectedHeightSlave
            /\ finalLocationGlobal' = finalLocationGlobal
            /\ finalHeightGlobal' = finalHeightGlobal
            /\ variant \in {"W", "P1"} => hopperSelected' = hopperSelected]_vars

\* C26: in the level-mirror master every cycle whose decoded hopper level
\* differs from the level of the cycle before commits a HID report whose
\* hopper button (13) shows the new level, and after every cycle the hopper
\* button of the last committed report equals hopperSelected.
C26_HopperLevelReported ==
    variant = "L" =>
        /\ lastHopperSwitch = hopperSelected
        /\ hidReport[13] = hopperSelected
        /\ (cycled /\ hopperSelected # prev.hopperSelected) =>
                (sent /\ hidReport[13] = hopperSelected)

\* The hopper switch is opened with nothing else touched: the report that
\* clears button 13 is committed.
C26_Witness ==
    /\ variant = "L" /\ fetchOk /\ sent
    /\ prev.hopperSelected /\ ~hopperSelected /\ ~hidReport[13]
    /\ risenMaster = {} /\ risenSlave = {}

\* Channel i holds the selection of its category.
LocalSelected(i) ==
    IF masterButtonType[i] = "LOCATION" THEN selectedLocationMaster = i
                                        ELSE selectedHeightMaster = i
RemoteSelected(i) ==
    IF slaveButtonType[i] = "LOCATION" THEN selectedLocationSlave = i
                                       ELSE selectedHeightSlave = i
RisenOfType(cat) == RisenM(cat) \cup RisenS(cat)

\* C27: in the toggle-flip masters a channel that is pressed in two
\* consecutive cycles with successful fetches is no rising edge in the
\* second: it does not take the selection there (it holds it after the
\* cycle only if it held it before and no channel of its category rose), and
\* a held hopper button leaves hopperSelected as it is.
C27_HeldIsOneEdge ==
    [][(variant \in {"W", "P1"} /\ fetchOk /\ fetchOk') =>
        /\ \A i \in MasterIdx :
              (lastMasterPressed[i] /\ lastMasterPressed'[i]) =>
                /\ i \notin risenMaster'
                /\ LocalSelected(i)' =>
                      /\ LocalSelected(i)
                      /\ RisenOfType(masterButtonType[i])' = {}
        /\ \A i \in SlaveIdx \ {0} :
              (lastSlavePressed[i] /\ lastSlavePressed'[i]) =>
                /\ i \notin risenSlave'
                /\ RemoteSelected(i)' =>
                      /\ RemoteSelected(i)
                      /\ RisenOfType(slaveButtonType[i])' = {}
        /\ (lastSlavePressed[0] /\ lastSlavePressed'[0]) =>
                hopperSelected' = hopperSelected]_vars

\* Local location 12 is still held when location 5 is pressed: 12 is no
\* edge any more and 5 takes the selection.
C27_Witness ==
    /\ variant \in {"W", "P1"} /\ fetchOk
    /\ lastMasterPressed[12] /\ lastMasterPressed[5]
    /\ risenMaster = {5} /\ risenSlave = {}
    /\ prev.selectedLocationMaster = 12 /\ selectedLocationMaster = 5

\* C28: in the toggle-flip masters the three parts of the latch move
\* independently: a cycle whose rising edges are all LOCATION leaves the
\* HEIGHT selection and hopperSelected as they were, one whose rising edges
\* are all HEIGHT leaves the LOCATION selection and hopperSelected, and one
\* whose only rising edge is the hopper's leaves both selections.
C28_CategoriesIndependent ==
    variant \in {"W", "P1"} =>
        /\ (RisenOfType("LOCATION") # {} /\ RisenOfType("HEIGHT") = {}
                /\ 0 \notin risenSlave) =>
              /\ Selection(Latch, "HEIGHT") = Selection(prev, "HEIGHT")
              /\ hopperSelected = prev.hopperSelected
        /\ (RisenOfType("HEIGHT") # {} /\ RisenOfType("LOCATION") = {}
                /\ 0 \notin risenSlave) =>
              /\ Selection(Latch, "LOCATION") = Selection(prev, "LOCATION")
              /\ hopperSelected = prev.hopperSelected
        /\ (risenMaster = {} /\ risenSlave = {0}) =>
              /\ Selection(Latch, "LOCATION") = Selection(prev, "LOCATION")
              /\ Selection(Latch, "HEIGHT") = Selection(prev, "HEIGHT")

\* With a height selected and the hopper on, a local location is pressed:
\* the location changes, height and hopper stay.
C28_Witness ==
    /\ variant \in {"W", "P1"}
    /\ risenMaster = {5} /\ risenSlave = {}
    /\ prev.selectedLocationMaster # 5 /\ selectedLocationMaster = 5
    /\ prev.selectedHeightSlave = 1 /\ selectedHeightSlave = 1
    /\ prev.hopperSelected /\ hopperSelected

-----------------------------------------------------------------------------
(* Order within a cycle, and the two commit policies side by side           *)

C30_CommitPoliciesAgree ==
    twin # << >> =>
        /\ twin.latch = Latch
        /\ twin.lastMasterPressed = lastMasterPressed
        /\ twin.lastSlavePressed = lastSlavePressed
        /\ twin.hidReport = hidReport
        /\ twin.ledFrame = ledFrame

\* A cycle without any press, in which only the second board sends a report,
\* with a location, a height and the hopper selected on both.
C30_Witness ==
    /\ twin # << >> /\ cycled /\ ~sent
    /\ twin.latch.selectedLocationMaster = 5
    /\ twin.latch.selectedHeightSlave = 1
    /\ twin.latch.hopperSelected
    /\ twin.hidReport[5] /\ hidReport[5]
    /\ twin.hidReport[13] /\ hidReport[13]

-----------------------------------------------------------------------------
(* Ranges and permanence of the selections                                  *)

\* C31: in "W", "P1" and "L" each selection index is -1 or an index of its
\* own board and category: the local location in 5..12, the local height in
\* 0..4, the remote location in 3..10, the remote height in 1..2; the hopper
\* index 0 is never stored, and every button number handed to
\* Joystick.setButton lies in 0..23.
C31_SelectionsInCategory ==
    variant # "PR" =>
        /\ selectedLocationMaster = -1
              \/ (selectedLocationMaster \in 5 .. 12
                    /\ masterButtonType[selectedLocationMaster] = "LOCATION")
        /\ selectedHeightMaster = -1
              \/ (selectedHeightMaster \in 0 .. 4
                    /\ masterButtonType[selectedHeightMaster] = "HEIGHT")
        /\ selectedLocationSlave = -1
              \/ (selectedLocationSlave \in 3 .. 10
                    /\ slaveButtonType[selectedLocationSlave] = "LOCATION")
        /\ selectedHeightSlave = -1
              \/ (selectedHeightSlave \in 1 .. 2
                    /\ slaveButtonType[selectedHeightSlave] = "HEIGHT")
        /\ WriteButtonsIndices(Latch) \subseteq 0 .. 23

\* The hopper has been switched on and a remote location and a local height
\* are selected: the hopper press left no index behind.
C31_Witness ==
    /\ variant # "PR" /\ hopperSelected
    /\ selectedLocationSlave = 10 /\ selectedLocationMaster = -1
    /\ selectedHeightMaster = 4 /\ selectedHeightSlave = -1

\* C32: in "W", "P1" and "L" a category that has a selection before a cycle
\* has one after it, whatever the pins and the fetch do in the cycle: the
\* pair of LOCATION indices never returns to -1/-1, nor does the HEIGHT pair.
C32_NeverDeselected ==
    variant # "PR" =>
        /\ Selection(prev, "LOCATION") # << -1, -1 >> =>
                Selection(Latch, "LOCATION") # << -1, -1 >>
        /\ Selection(prev, "HEIGHT") # << -1, -1 >> =>
                Selection(Latch, "HEIGHT") # << -1, -1 >>

\* A remote location and a remote height outlive a cycle whose fetch timed
\* out and in which no local button was pressed.
C32_Witness ==
    /\ variant # "PR" /\ cycled /\ ~fetchOk /\ risenMaster = {}
    /\ prev.selectedLocationSlave = 10 /\ selectedLocationSlave = 10
    /\ prev.selectedHeightSlave = 1 /\ selectedHeightSlave = 1

\* C33: in the priority master a local toggle that is set stays set: after
\* every later cycle toggleMasterLocation is still a local button and the
\* final location is that button, whatever the slave reports; the same holds
\* for the height.
C33_LocalToggleIsPermanent ==
    [][variant = "PR" =>
        /\ toggleMasterLocation # -1 =>
              /\ toggleMasterLocation' # -1
              /\ finalLocationGlobal' = toggleMasterLocation'
              /\ finalLocationGlobal' \in LocalLocations
        /\ toggleMasterHeight # -1 =>
              /\ toggleMasterHeight' # -1
              /\ finalHeightGlobal' = toggleMasterHeight'
              /\ finalHeightGlobal' \in LocalHeights]_vars

\* Long after the local presses, with every local button released, the
\* slave reports a location and a height: the finals stay the local ones.
C33_Witness ==
    /\ variant = "PR" /\ fetchOk /\ risenMaster = {}
    /\ HeldCount(lastMasterPhysicalState) = 0
    /\ slaveLoc = 7 /\ slaveHt = 0
    /\ toggleMasterLocation = 5 /\ finalLocationGlobal = 5
    /\ toggleMasterHeight = 12 /\ finalHeightGlobal = 12

\* C34: a cycle of the priority master writes the clear-location command
\* exactly when toggleMasterLocation is not -1 at step 3, and the
\* clear-height command exactly when toggleMasterHeight is not -1; so the
\* command goes out in every cycle after the first local press of the
\* category, rising edge or not.
C34_ClearSentIffToggleActive ==
    (variant = "PR" /\ cycled) =>
        /\ 1 \in CommandsSent <=> toggleMasterLocation # -1
        /\ 2 \in CommandsSent <=> toggleMasterHeight # -1
        /\ CommandsSent \subseteq {1, 2}

\* A cycle without any local rising edge and with every local button
\* released still writes the clear-location command, and no height command
\* since no local height was ever pressed.
C34_Witness ==
    /\ variant = "PR" /\ cycled /\ risenMaster = {}
    /\ HeldCount(lastMasterPhysicalState) = 0
    /\ toggleMasterLocation = 5 /\ toggleMasterHeight = -1
    /\ busCommands = <<1>>

-----------------------------------------------------------------------------
(* The priority master and bytes outside the protocol                       *)

\* The HID buttons of each category in the priority master.
LocationButtons == LocalLocations \cup {13, 14, 15, 18, 19, 20, 22, 23}
HeightButtons == LocalHeights \cup {16, 17}

\* C35: whatever two bytes the slave answers (0..255 each), and on a
\* timeout, the final location is -1 or a location button and the final
\* height is -1 or a height button; a final selection taken from the slave
\* was read from the mapping table at an index inside it (0..7, resp. 0..1);
\* and the committed report has at most one location button and at most one
\* height button true.
C35_AnyBytesStayInRange ==
    variant = "PR" =>
        /\ finalLocationGlobal \in {-1} \cup LocationButtons
        /\ finalHeightGlobal \in {-1} \cup HeightButtons
        /\ (toggleMasterLocation = -1 /\ finalLocationGlobal # -1) =>
              /\ slaveLoc \in 0 .. 7
              /\ finalLocationGlobal =
                    <<13, 14, 15, 18, 19, 20, 22, 23>>[slaveLoc + 1]
        /\ (toggleMasterHeight = -1 /\ finalHeightGlobal # -1) =>
              /\ slaveHt \in 0 .. 1
              /\ finalHeightGlobal = <<16, 17>>[slaveHt + 1]
        /\ (toggleMasterLocation = -1 /\ slaveLoc \notin 0 .. 7) =>
                finalLocationGlobal = -1
        /\ (toggleMasterHeight = -1 /\ slaveHt \notin 0 .. 1) =>
                finalHeightGlobal = -1
        /\ Cardinality({b \in LocationButtons : hidReport[b]}) <= 1
        /\ Cardinality({b \in HeightButtons : hidReport[b]}) <= 1

\* The slave answers a location number past the table and a valid height:
\* no location is reported, the height is.
C35_Witness ==
    /\ variant = "PR" /\ fetchOk
    /\ slaveLoc = 200 /\ slaveHt = 1
    /\ toggleMasterLocation = -1 /\ toggleMasterHeight = -1
    /\ finalLocationGlobal = -1 /\ finalHeightGlobal = 17
    /\ hidReport[17]

-----------------------------------------------------------------------------
(* The slaves keep no state                                                *)

\* C36: whatever the slave's loop() has done and wherever it stands, and
\* whatever was asked and pressed before, the two bytes of an answer are the
\* pin levels read in that request and nothing else: with part_000 bit i of
\* byte 1 is pin i (0..7) and bit i-8 of byte 2 is pin i (8..10), with
\* SlaveExpander.ino bit i of byte 1 is pin i (0..6) and bit i-7 of byte 2
\* is pin i (7..10), and every other bit is 0.
C36_AnswerFromPinsAlone ==
    busPhase = "answered" =>
        /\ Len(wireBytes) = 2
        /\ slaveSketch = "part_000" =>
              /\ \A i \in 0 .. 7 : BitIsSet(wireBytes[1], i) = pinsRead[i]
              /\ \A i \in 8 .. 10 : BitIsSet(wireBytes[2], i - 8) = pinsRead[i]
              /\ \A k \in 3 .. 7 : ~BitIsSet(wireBytes[2], k)
        /\ slaveSketch = "SlaveExpander" =>
              /\ \A i \in 0 .. 6 : BitIsSet(wireBytes[1], i) = pinsRead[i]
              /\ \A i \in 7 .. 10 : BitIsSet(wireBytes[2], i - 7) = pinsRead[i]
              /\ ~BitIsSet(wireBytes[1], 7)
              /\ \A k \in 4 .. 7 : ~BitIsSet(wireBytes[2], k)

\* The request interrupts loop() of SlaveExpander.ino between its read of a
\* pin and its write to lastSlaveState, after button 0 was released: loop()
\* still remembers it pressed, the answer carries pins 7 and 10 only.
C36_Witness ==
    /\ slaveSketch = "SlaveExpander" /\ busPhase = "answered"
    /\ slaveLoopPc = "write" /\ slaveLoopI = 7
    /\ lastSlaveState[0] /\ ~pinsRead[0]
    /\ pinsRead = LowAt(SlaveIdx, {7, 10}) /\ slavePins = pinsRead
    /\ wireBytes = << 0, 9 >>

====
